---- MODULE Spec2Model ----
(***************************************************************************)
(* JupLimits: limit-order front end and bundle-submission proxy.           *)
(*                                                                         *)
(* The model covers the four backend handlers (submit-jito-bundle,         *)
(* submit-cancel-bundle, create-order-jito, open-orders) and the           *)
(* cancellation flow of the OrderManagement component.  The relay, the     *)
(* ledger RPC, the aggregator and the wallet are the environment: each     *)
(* awaited call is one action whose result is drawn from a small set.      *)
(*                                                                         *)
(* JavaScript values that may be undefined are optionals: None is <<>> and *)
(* Some(v) is <<v>>.  Strings read from the .env file are sequences of     *)
(* tokens, with "=" and " " the only tokens the parser looks at.           *)
(***************************************************************************)
EXTENDS Integers, Sequences, FiniteSets, TLC

(***************************************************************************)
(* Bounds of the model                                                     *)
(***************************************************************************)
\* largest number of signed transactions in one cancellation request
MaxCancelTxs == 2
\* largest number of bundle-result notifications the relay delivers for one
\* request
MaxNotifications == 2
\* largest number of orders created on one page
MaxCreated == 6

(***************************************************************************)
(* Program constants                                                       *)
(***************************************************************************)
NativeMint == "So11111111111111111111111111111111111111112"
UsdcMint == "EPjFWdd5AufqSSqeM2qN1xzybapC8G4wEGGkZwyTDt1v"
feeWallet == "FeegNqsGa7ppvuLRLj5xvqEu11cC1tXpWmwqdoqsMXnN"
DefaultMakingAmount == 50000000
FeeFallbackDivisor == 1000
tipAmount == 1000
DefaultBundleTransactionLimit == 5
maxAttempts == 30
\* prev.slice(0, 4) of recentOrders, prev.slice(0, 10) of cancelledOrders
KeptRecent == 4
KeptCancelled == 10

(***************************************************************************)
(* Optionals and small helpers                                             *)
(***************************************************************************)
None == <<>>
Some(v) == <<v>>
IsSome(o) == o # <<>>
Val(o) == o[1]

Last(s) == s[Len(s)]

\* Array.prototype.map with a one-argument operator
SeqMap(Op(_), s) == [i \in 1..Len(s) |-> Op(s[i])]

(***************************************************************************)
(* .env parsing (the same code in the three handlers that read it)         *)
(***************************************************************************)
RECURSIVE TrimLeft(_)
TrimLeft(line) ==
  IF line # <<>> /\ Head(line) = " " THEN TrimLeft(Tail(line)) ELSE line

RECURSIVE TrimRight(_)
TrimRight(line) ==
  IF line # <<>> /\ Last(line) = " "
  THEN TrimRight(SubSeq(line, 1, Len(line) - 1))
  ELSE line

\* String.prototype.trim
Trim(line) == TrimRight(TrimLeft(line))

RECURSIVE SplitEq(_, _)
\* String.prototype.split('='): the segments between "=" tokens; cur is the
\* segment being read.  The empty string splits into one empty segment.
SplitEq(line, cur) ==
  IF line = <<>> THEN <<cur>>
  ELSE IF Head(line) = "=" THEN <<cur>> \o SplitEq(Tail(line), <<>>)
  ELSE SplitEq(Tail(line), Append(cur, Head(line)))

RECURSIVE JoinEq(_)
\* Array.prototype.join('=')
JoinEq(parts) ==
  IF parts = <<>> THEN <<>>
  ELSE IF Len(parts) = 1 THEN parts[1]
  ELSE parts[1] \o <<"=">> \o JoinEq(Tail(parts))

RECURSIVE ParseLines(_, _)
\* forEach(line => { const [key, ...valueParts] = line.trim().split('=')
\*                   if (key && valueParts.length > 0) env[key] = join })
ParseLines(lines, env) ==
  IF lines = <<>> THEN env
  ELSE LET segs == SplitEq(Trim(Head(lines)), <<>>)
           key == Head(segs)
           valueParts == Tail(segs)
           env2 == IF key # <<>> /\ Len(valueParts) > 0
                   THEN [k \in DOMAIN env \cup {key} |->
                           IF k = key THEN JoinEq(valueParts) ELSE env[k]]
                   ELSE env
       IN ParseLines(Tail(lines), env2)

EmptyEnv == [k \in {} |-> <<>>]

\* jitoEnv after the try/catch around readFileSync: {} when the read throws
LoadEnvFile(file) ==
  IF file.readable THEN ParseLines(file.lines, EmptyEnv) ELSE EmptyEnv

\* env.NAME: the optional string stored under the key NAME
Lookup(env, name) ==
  IF <<name>> \in DOMAIN env THEN Some(env[<<name>>]) ELSE None

\* JavaScript truthiness of an optional string: undefined and "" are falsy
Truthy(o) == IsSome(o) /\ Val(o) # <<>>

\* a || b on optional strings
OrElse(a, b) == IF Truthy(a) THEN a ELSE b

\* jitoEnv.NAME || process.env.NAME
Setting(file, penv, name) == OrElse(Lookup(LoadEnvFile(file), name), Lookup(penv, name))

\* JSON.parse(authKeypairPath) followed by Keypair.fromSecretKey: the token
\* "[kp]" stands for a JSON array of 64 key bytes, "[kp2]" for another one;
\* anything else makes one of the two calls throw.
\* mutant: any string is taken for a key
KeypairParsesAnything(str) == TRUE

KeypairParses(str) == str \in {<<"[kp]">>, <<"[kp2]">>}

KeypairOf(str) == IF str = <<"[kp]">> THEN "serverKey" ELSE "serverKey2"

\* parseInt on the tokens used for BUNDLE_TRANSACTION_LIMIT; -1 stands for NaN
ParseInt(str) ==
  IF str = <<"2">> THEN 2
  ELSE IF str = <<"5">> THEN 5
  ELSE -1

BundleTransactionLimit(file, penv) ==
  LET v == OrElse(Lookup(LoadEnvFile(file), "BUNDLE_TRANSACTION_LIMIT"),
                  Lookup(penv, "BUNDLE_TRANSACTION_LIMIT"))
  IN IF Truthy(v) THEN ParseInt(Val(v)) ELSE DefaultBundleTransactionLimit

(***************************************************************************)
(* Configuration the process can run with                                  *)
(***************************************************************************)
LineBlockEngine == <<"BLOCK_ENGINE_URL", "=", "block-engine.example">>
LineAuth == <<"AUTH_KEYPAIR_PATH", "=", "[kp]">>
\* a value that itself contains "=": split and join must give it back
LineRpc == <<"RPC_URL", "=", "https://rpc.example/?key", "=", "1">>
LineComment == <<"#", " ", "relay settings">>

FileMissing == [readable |-> FALSE, lines |-> <<>>]
FileFull == [readable |-> TRUE,
             lines |-> <<LineComment, <<>>, LineBlockEngine, LineAuth, LineRpc,
                         <<" ", "BUNDLE_TRANSACTION_LIMIT", "=", "2", " ">>>>]
\* no RPC_URL at all
FileNoRpc == [readable |-> TRUE, lines |-> <<LineBlockEngine, LineAuth>>]
\* RPC_URL written with blanks around "=": the key keeps its trailing blank
FileSpacedRpc == [readable |-> TRUE,
                  lines |-> <<LineBlockEngine, LineAuth,
                              <<"RPC_URL", " ", "=", " ", "https://rpc.example">>>>]
\* RPC_URL present with an empty value, BLOCK_ENGINE_URL without "="
FileEmptyValues == [readable |-> TRUE,
                    lines |-> <<<<"BLOCK_ENGINE_URL">>, LineAuth, <<"RPC_URL", "=">>>>]
\* the key setting holds a file path instead of a JSON array
FileBadKey == [readable |-> TRUE,
               lines |-> <<LineBlockEngine,
                           <<"AUTH_KEYPAIR_PATH", "=", "keys/id.json">>, LineRpc>>]

EnvFiles == {FileMissing, FileFull, FileNoRpc, FileSpacedRpc, FileEmptyValues, FileBadKey}

ProcEnvFull == [k \in {<<"BLOCK_ENGINE_URL">>, <<"AUTH_KEYPAIR_PATH">>, <<"RPC_URL">>} |->
                  IF k = <<"BLOCK_ENGINE_URL">> THEN <<"block-engine.proc">>
                  ELSE IF k = <<"AUTH_KEYPAIR_PATH">> THEN <<"[kp2]">>
                  ELSE <<"https://rpc.proc">>]
ProcEnvRpcOnly == [k \in {<<"RPC_URL">>} |-> <<"https://rpc.proc">>]

ProcEnvs == {EmptyEnv, ProcEnvFull, ProcEnvRpcOnly}

(***************************************************************************)
(* Requests                                                                *)
(***************************************************************************)
Methods == {"POST", "GET", "PUT"}

\* base64 blobs a caller can send
Blobs == {"blobT1", "blobT2", "blobNoSig", "blobGarbage"}

\* VersionedTransaction.deserialize throws on a malformed blob
Deserializes(blob) == blob \in {"blobT1", "blobT2", "blobNoSig"}

Deserialize(blob) ==
  [origin |-> "caller", blob |-> blob,
   signatures |->
     IF blob = "blobT1" THEN <<[signer |-> "wallet", over |-> "blobT1"]>>
     ELSE IF blob = "blobT2"
       THEN <<[signer |-> "wallet", over |-> "blobT2"],
              [signer |-> "cosigner", over |-> "blobT2"]>>
     ELSE <<>>]

\* bs58.encode of a signature
Bs58Encode(sig) == <<"bs58", sig>>

\* mutant: the last signature instead of the first
LastSignature(tx) == Bs58Encode(tx.signatures[Len(tx.signatures)])

\* bs58.encode(tx.signatures[0])
FirstSignature(tx) == Bs58Encode(tx.signatures[1])

MakingAmounts == {0, 1, 99, 100, 12345, 50000000}
InputMints == {NativeMint, UsdcMint, "not-a-mint"}

\* new PublicKey(str) throws on a string that is not a 32-byte base58 key
IsPublicKeyString(str) == str # "not-a-mint" /\ str # "not-a-key"

NullBody == [isNull |-> TRUE]

CreateBodies ==
  {NullBody} \cup
  {[isNull |-> FALSE, signedTransaction |-> st, orderId |-> Some("O1"),
    makingAmount |-> ma, inputMint |-> im] :
     st \in {None} \cup {Some(b) : b \in Blobs},
     ma \in {None} \cup {Some(a) : a \in MakingAmounts},
     im \in {None} \cup {Some(m) : m \in InputMints}}

BlobSeqs == UNION {[1..n -> Blobs] : n \in 0..MaxCancelTxs}

CancelBodies ==
  {NullBody} \cup
  {[isNull |-> FALSE, signedTransactions |-> sts, orderIds |-> ids] :
     sts \in {None} \cup {Some(s) : s \in BlobSeqs},
     ids \in {None, Some(<<"O1">>), Some(<<"O1", "O2">>)}}

CreateOrderBodies ==
  {NullBody,
   [isNull |-> FALSE, inputMint |-> NativeMint, outputMint |-> UsdcMint,
    maker |-> "W1", makingAmount |-> "50000000", takingAmount |-> "7977500"]}

\* req.query.wallet: missing, a string, or an array (the parameter repeated)
WalletQueries == {[kind |-> "absent"], [kind |-> "string", value |-> "W1"],
                  [kind |-> "array"]}

NoQuery == [kind |-> "absent"]

Requests ==
  {[route |-> "submit-jito-bundle", method |-> m, body |-> b, wallet |-> NoQuery] :
     m \in Methods, b \in CreateBodies} \cup
  {[route |-> "submit-cancel-bundle", method |-> m, body |-> b, wallet |-> NoQuery] :
     m \in Methods, b \in CancelBodies} \cup
  {[route |-> "create-order-jito", method |-> m, body |-> b, wallet |-> NoQuery] :
     m \in Methods, b \in CreateOrderBodies} \cup
  {[route |-> "open-orders", method |-> m, body |-> NullBody, wallet |-> w] :
     m \in Methods, w \in WalletQueries}

(***************************************************************************)
(* Results the environment can give                                        *)
(***************************************************************************)
\* messages of errors reported or thrown by the relay, the RPC, the network
Messages == {"", "bundle dropped"}

TipAccountLists == {<<>>, <<"tipA">>, <<"tipA", "tipB">>, <<"not-a-key">>}

\* Result<string[], Error> of getTipAccounts, or a rejected promise
TipResults ==
  {[kind |-> "ok", value |-> l] : l \in TipAccountLists} \cup
  {[kind |-> k, message |-> m] : k \in {"err", "throw"}, m \in Messages}

Blockhashes == {"bh1", "bh2"}

BlockhashResults ==
  {[kind |-> "ok", value |-> h] : h \in Blockhashes} \cup
  {[kind |-> "throw", message |-> m] : m \in Messages}

\* Result<string, Error> of sendBundle, or a rejected promise
SendResults ==
  {[kind |-> "ok", value |-> u] : u \in {"uuid-1", "uuid-2"}} \cup
  {[kind |-> k, message |-> m] : k \in {"err", "throw"}, m \in Messages}

\* fetch of the aggregator's createOrder: a JSON answer (its order and tx
\* properties are read unchecked, either may be undefined), a non-success
\* status, or a network error
CreateOrderResults ==
  {[kind |-> "ok", order |-> o, tx |-> t] :
     o \in {None, Some("O1")},
     t \in {None, Some("blobT1"), Some("blobGarbage")}} \cup
  {[kind |-> "http", status |-> "400", text |-> "bad request"]} \cup
  {[kind |-> "throw", message |-> m] : m \in Messages}

\* connection.sendTransaction
SendTransactionResults ==
  {[kind |-> "ok", value |-> "ledgerSig"]} \cup
  {[kind |-> "throw", message |-> m] : m \in Messages}

\* connection.confirmTransaction: confirmation.value.err is null or an error
ConfirmResults ==
  {[kind |-> "ok", err |-> e] : e \in {None, Some("InstructionError")}} \cup
  {[kind |-> "throw", message |-> m] : m \in Messages}

Order(id) == [publicKey |-> id]

\* fetch of the aggregator's openOrders
OpenOrdersResults ==
  {[kind |-> "ok", orders |-> l] :
     l \in {<<>>, <<Order("O1")>>, <<Order("O1"), Order("O2")>>}} \cup
  {[kind |-> "http", status |-> "429", text |-> "slow down"]} \cup
  {[kind |-> "throw", message |-> m] : m \in Messages}

(***************************************************************************)
(* What the browser's collaborators can answer                             *)
(***************************************************************************)
Wallets == {[publicKey |-> "W1", signTransaction |-> TRUE],
            [publicKey |-> "W1", signTransaction |-> FALSE]}

\* GET /api/open-orders as the component sees it
ListingResults ==
  {[kind |-> "ok", orders |-> l] :
     l \in {<<>>, <<Order("O1")>>, <<Order("O1"), Order("O2")>>}} \cup
  {[kind |-> "http", status |-> "500", text |-> "upstream"]} \cup
  {[kind |-> "throw", message |-> m] : m \in Messages}

\* POST cancelOrders at the aggregator: the unsigned cancel transactions
CancelOrdersResults ==
  {[kind |-> "ok", txs |-> l] :
     l \in {<<>>, <<"blobT1">>, <<"blobT1", "blobT2">>, <<"blobGarbage">>}} \cup
  {[kind |-> "http", status |-> "400", text |-> "bad request"]} \cup
  {[kind |-> "throw", message |-> m] : m \in Messages}

\* signTransaction: the wallet signs or the user declines
SignResults == {[kind |-> "ok"], [kind |-> "throw", message |-> "User rejected the request"]}

\* POST /api/submit-cancel-bundle as the component sees it
SubmitCancelResults ==
  {[kind |-> "ok"], [kind |-> "http", status |-> "500", text |-> "rejected"]} \cup
  {[kind |-> "throw", message |-> m] : m \in Messages}

(***************************************************************************)
(* Error messages                                                          *)
(***************************************************************************)
MethodNotAllowed == "Method not allowed"
ConfigMissingBundle ==
  "Server configuration missing. Please check BLOCK_ENGINE_URL, AUTH_KEYPAIR_PATH and RPC_URL in .env"
ConfigMissingCreate ==
  "Server configuration missing. Please check AUTH_KEYPAIR_PATH and RPC_URL in .env"
InvalidKeypair ==
  "Invalid AUTH_KEYPAIR_PATH format. Must be a valid JSON array of numbers."
InternalServerError == "Internal server error"
\* messages of the errors the runtime and the libraries throw
TypeErrorDestructure == "Cannot destructure property of null"
TypeErrorLength == "Cannot read properties of undefined (reading 'length')"
TypeErrorBn == "Cannot read properties of undefined (reading '_bn')"
TypeErrorBuffer == "The first argument must be of type string"
InvalidPublicKey == "Invalid public key input"
DeserializeError == "failed to deserialize transaction"
EncodeError == "Expected Uint8Array"

\* error.message || 'Internal server error'
MessageOrDefault(m) == IF m = "" THEN InternalServerError ELSE m

(***************************************************************************)
(* State                                                                   *)
(***************************************************************************)
VARIABLES
  envFile,      \* the .env file in the working directory
  procEnv,      \* process.env
  pc,           \* position of the request handler
  req,          \* the request being handled: route, method, body
  calls,        \* calls this request made to the file system and the outside
  responses,    \* responses sent for this request, in order
  cfg,          \* settings the handler loaded (optional record; the URLs as
                \* the optional strings the lookup gave)
  tipAccounts,  \* list the relay returned from getTipAccounts (optional)
  tipAccount,   \* tip account the handler picked (optional)
  userTxs,      \* deserialized caller transactions
  blockHash,    \* recent blockhash the handler fetched (optional)
  feeAmountUnits, \* submit-jito-bundle: the fee the handler computed (optional)
  bundle,       \* Bundle handed to sendBundle (optional)
  sendResult,   \* what sendBundle gave back (optional)
  jupiterResult,\* create-order-jito: the aggregator's JSON answer (optional)
  versionedTx,  \* create-order-jito: the transaction signed by the server (optional)
  createOrderResponse, \* create-order-jito: ok, status and text of the
                \* aggregator's HTTP response (optional)
  confirmation, \* create-order-jito: what confirmTransaction resolved with (optional)
  bundleLog,    \* what the bundle-result callbacks of this request have logged
  parked,       \* a second handler invocation in flight, suspended at an await:
                \* its position, request, calls, responses and locals
  \* ---- OrderManagement component (browser) ----
  wallet,                  \* connected wallet (optional): publicKey, signTransaction
  orders,                  \* useState orders
  isLoading,               \* useState isLoading
  isCancellingInProgress,  \* useState isCancellingInProgress
  cancellingOrderIds,      \* useState cancellingOrderIds
  errorMessage,            \* useState errorMessage (optional)
  refreshPc,               \* fetchOpenOrders started by the effect or the button
  cancelPc,                \* position of handleCancelOrder / handleCancelAllOrders
  cancelFlow,              \* locals of the running cancel handler
  pollPc,                  \* position of pollForOrderCancellation
  orderIdsToCheck,         \* argument of the running poll
  attempts,                \* the poll's attempts counter
  lastListing,             \* what the latest checkOrders fetch settled with (optional)
  pollChecks,              \* checkOrders calls made by the current poll
  pollRefreshes,           \* fetchOpenOrders calls made by the current poll
  onOrderCancelledCalls,   \* arguments of the onOrderCancelled calls of the current poll
  \* ---- Home page (browser) ----
  recentOrders,            \* useState recentOrders
  cancelledOrders,         \* useState cancelledOrders
  created,                 \* the ids handleOrderCreated was called with, in order
  pendingRefreshes,        \* timers set by handleOrderCreated that have not fired yet
  refreshOrdersFetches,    \* fetches issued by refreshOrders calls
  \* ---- LimitOrderForm component (browser) ----
  amountInput,             \* useState makingAmount (the input's text)
  priceInput,              \* useState price (the input's text)
  isCreatingOrder,         \* useState isCreatingOrder
  lastOrderId,             \* useState lastOrderId (optional)
  formErrorMessage,        \* useState errorMessage of the form (optional)
  createPc,                \* position of handleCreateOrder
  createFlow,              \* locals of the running handleCreateOrder
  createCalls              \* calls the latest handleCreateOrder made, in order

config == <<envFile, procEnv>>
order == <<jupiterResult, versionedTx, createOrderResponse, confirmation>>
locals == <<cfg, tipAccounts, tipAccount, userTxs, blockHash, feeAmountUnits, bundle,
            sendResult, jupiterResult, versionedTx, createOrderResponse, confirmation>>
backend == <<pc, req, calls, responses, locals, bundleLog>>
component == <<wallet, orders, isLoading, isCancellingInProgress, cancellingOrderIds,
               errorMessage, refreshPc>>
cancel == <<cancelPc, cancelFlow>>
poll == <<pollPc, orderIdsToCheck, attempts, lastListing, pollChecks, pollRefreshes,
          onOrderCancelledCalls>>
home == <<recentOrders, cancelledOrders, created, pendingRefreshes, refreshOrdersFetches>>
form == <<amountInput, priceInput, isCreatingOrder, lastOrderId, formErrorMessage, createPc,
          createFlow, createCalls>>
ui == <<component, cancel, poll, home, form>>
vars == <<envFile, procEnv, parked, bundleLog, pc, req, calls, responses, cfg, tipAccounts,
          tipAccount, userTxs, blockHash, feeAmountUnits, bundle, sendResult, jupiterResult,
          versionedTx, createOrderResponse, confirmation, wallet, orders, isLoading, isCancellingInProgress,
          cancellingOrderIds, errorMessage, refreshPc, cancelPc, cancelFlow, pollPc,
          orderIdsToCheck, attempts, lastListing, pollChecks, pollRefreshes,
          onOrderCancelledCalls, recentOrders, cancelledOrders, created, pendingRefreshes,
          refreshOrdersFetches, amountInput, priceInput, isCreatingOrder, lastOrderId,
          formErrorMessage, createPc, createFlow, createCalls>>

NoRequest == [route |-> "none", method |-> "none", body |-> NullBody, wallet |-> NoQuery]

BackendInit ==
  /\ pc = "idle"
  /\ req = NoRequest
  /\ calls = <<>>
  /\ responses = <<>>
  /\ cfg = None
  /\ tipAccounts = None
  /\ tipAccount = None
  /\ userTxs = <<>>
  /\ blockHash = None
  /\ feeAmountUnits = None
  /\ bundle = None
  /\ sendResult = None
  /\ jupiterResult = None
  /\ versionedTx = None
  /\ createOrderResponse = None
  /\ confirmation = None
  /\ bundleLog = <<>>

NoFlow == [kind |-> "none", ids |-> <<>>, pending |-> <<>>, signedTransactions |-> <<>>]

NoCreateFlow == [order |-> None, tx |-> None, jitoResponse |-> None]

\* the page as first mounted: no wallet, nothing loaded, the form showing its
\* initial amount and price
UiInit ==
  /\ wallet = None
  /\ orders = <<>>
  /\ isLoading = FALSE
  /\ isCancellingInProgress = FALSE
  /\ cancellingOrderIds = <<>>
  /\ errorMessage = None
  /\ refreshPc = "idle"
  /\ cancelPc = "idle"
  /\ cancelFlow = NoFlow
  /\ pollPc = "none"
  /\ orderIdsToCheck = <<>>
  /\ attempts = 0
  /\ lastListing = None
  /\ pollChecks = 0
  /\ pollRefreshes = 0
  /\ onOrderCancelledCalls = <<>>
  /\ recentOrders = <<>>
  /\ cancelledOrders = <<>>
  /\ created = <<>>
  /\ pendingRefreshes = 0
  /\ refreshOrdersFetches = 0
  /\ amountInput = "0.05"
  /\ priceInput = "159.55"
  /\ isCreatingOrder = FALSE
  /\ lastOrderId = None
  /\ formErrorMessage = None
  /\ createPc = "idle"
  /\ createFlow = NoCreateFlow
  /\ createCalls = <<>>

\* an invocation slot in which no request is being handled
IdleInvocation ==
  [pc |-> "idle", req |-> NoRequest, calls |-> <<>>, responses |-> <<>>, cfg |-> None,
   tipAccounts |-> None, tipAccount |-> None, userTxs |-> <<>>, blockHash |-> None,
   feeAmountUnits |-> None, bundle |-> None, sendResult |-> None,
   jupiterResult |-> None, versionedTx |-> None]

Init ==
  /\ envFile \in EnvFiles
  /\ procEnv \in ProcEnvs
  /\ parked = IdleInvocation
  /\ BackendInit
  /\ UiInit

(***************************************************************************)
(* Responses                                                               *)
(***************************************************************************)
\* mutant: every route accepts both POST and GET
MethodAllowedPostOrGet(route, method) == method \in {"POST", "GET"}

\* req.method !== 'POST' (submission routes), req.method !== 'GET' (open-orders)
MethodAllowed(route, method) ==
  IF route = "open-orders" THEN method = "GET" ELSE method = "POST"

\* mutant: only the signing key is checked
BundleConfigMissingKeyOnly(blockEngineUrl, authKeypairPath, rpcUrl) ==
  ~Truthy(authKeypairPath)

\* !blockEngineUrl || !authKeypairPath || !rpcUrl
BundleConfigMissing(blockEngineUrl, authKeypairPath, rpcUrl) ==
  ~Truthy(blockEngineUrl) \/ ~Truthy(authKeypairPath) \/ ~Truthy(rpcUrl)

\* !authKeypairPath || !rpcUrl
CreateConfigMissing(authKeypairPath, rpcUrl) ==
  ~Truthy(authKeypairPath) \/ ~Truthy(rpcUrl)

\* mutant: the relay's message is dropped
BundleSubmissionFailedBare(message) == "Bundle submission failed"

\* `Bundle submission failed: ${message}`
BundleSubmissionFailed(message) == "Bundle submission failed: " \o message

\* `Cancel bundle submission failed: ${message}`
CancelBundleSubmissionFailed(message) == "Cancel bundle submission failed: " \o message

\* res.status(status).json(body)
Respond(status, body) ==
  responses' = Append(responses, [status |-> status, body |-> body])

\* mutant: the failure is sent twice
FailTwice(status, msg) ==
  /\ responses' = responses \o <<[status |-> status, body |-> [success |-> FALSE, error |-> msg]],
                                  [status |-> status, body |-> [success |-> FALSE, error |-> msg]]>>
  /\ pc' = "done"

\* mutant: the failure is sent with status 200
FailWithOk(status, msg) ==
  /\ Respond(200, [success |-> FALSE, error |-> msg])
  /\ pc' = "done"

\* res.status(status).json({ success: false, error: msg }) ending the handler
Fail(status, msg) ==
  /\ Respond(status, [success |-> FALSE, error |-> msg])
  /\ pc' = "done"

\* mutant: the error is swallowed, the request is never answered
OuterCatchSwallow(m) == pc' = "done" /\ UNCHANGED responses

\* the outer catch: error.message || 'Internal server error'
OuterCatch(m) == Fail(500, MessageOrDefault(m))

\* json({ success: true, orderId: jupiterResult.order }): JSON.stringify
\* leaves out a property whose value is undefined
JsonOrderCreated(orderId) ==
  IF IsSome(orderId) THEN [success |-> TRUE, orderId |-> Val(orderId)]
  ELSE [success |-> TRUE]

(***************************************************************************)
(* Transactions the server builds                                          *)
(***************************************************************************)
\* mutant: the message is compiled with a blockhash kept from an earlier request
SignedTxStaleBlockhash(ix, keypair, recentBlockhash) ==
  [origin |-> "server", instruction |-> ix, payerKey |-> keypair,
   recentBlockhash |-> "bh1",
   signatures |-> <<[signer |-> keypair, over |-> ix]>>]

\* new VersionedTransaction(new TransactionMessage({payerKey, recentBlockhash,
\* instructions: [ix]}).compileToV0Message()) followed by sign([keypair])
SignedTx(ix, keypair, recentBlockhash) ==
  [origin |-> "server", instruction |-> ix, payerKey |-> keypair,
   recentBlockhash |-> recentBlockhash,
   signatures |-> <<[signer |-> keypair, over |-> ix]>>]

\* SystemProgram.transfer({fromPubkey, toPubkey, lamports})
SystemTransfer(from, to, lamports) ==
  [program |-> "system", from |-> from, to |-> to, amount |-> lamports]

\* getAssociatedTokenAddress(mint, owner)
AssociatedTokenAddress(mint, owner) == <<"ata", mint, owner>>

\* createTransferInstruction(source, destination, owner, amount)
TokenTransfer(source, destination, owner, amount) ==
  [program |-> "token", from |-> source, to |-> destination, amount |-> amount,
   owner |-> owner]

\* mutant: an omitted inputMint is taken for the USDC mint
CurrentInputMintDefaultUsdc(inputMint) ==
  IF IsSome(inputMint) THEN Val(inputMint) ELSE UsdcMint

\* inputMint || 'So1111...'
CurrentInputMint(inputMint) == IF IsSome(inputMint) THEN Val(inputMint) ELSE NativeMint

\* makingAmount || 50000000: undefined and 0 are both falsy
MakingAmountUnits(makingAmount) ==
  IF IsSome(makingAmount) /\ Val(makingAmount) # 0
  THEN Val(makingAmount) ELSE DefaultMakingAmount

\* Math.floor(makingAmountUnits * 0.01).  For the integers below 2^50 the
\* double product floors to the integer quotient by 100.
FeeAmountUnits(makingAmount) == MakingAmountUnits(makingAmount) \div 100

\* mutant: the fallback transfers the whole fee
FeeTxFallbackWholeFee(inputMint, makingAmount, keypair, recentBlockhash, splFails) ==
  LET mint == CurrentInputMint(inputMint)
      fee == FeeAmountUnits(makingAmount)
  IN IF mint = NativeMint
     THEN SignedTx(SystemTransfer(keypair, feeWallet, fee), keypair, recentBlockhash)
     ELSE IF IsPublicKeyString(mint) /\ ~splFails
     THEN SignedTx(TokenTransfer(AssociatedTokenAddress(mint, keypair),
                                 AssociatedTokenAddress(mint, feeWallet),
                                 keypair, fee),
                   keypair, recentBlockhash)
     ELSE SignedTx(SystemTransfer(keypair, feeWallet, fee), keypair, recentBlockhash)

\* the fee transaction of the three branches; splFails says that building the
\* token transfer threw (import, key parsing or address derivation)
FeeTx(inputMint, makingAmount, keypair, recentBlockhash, splFails) ==
  LET mint == CurrentInputMint(inputMint)
      fee == FeeAmountUnits(makingAmount)
  IN IF mint = NativeMint
     THEN SignedTx(SystemTransfer(keypair, feeWallet, fee), keypair, recentBlockhash)
     ELSE IF IsPublicKeyString(mint) /\ ~splFails
     THEN SignedTx(TokenTransfer(AssociatedTokenAddress(mint, keypair),
                                 AssociatedTokenAddress(mint, feeWallet),
                                 keypair, fee),
                   keypair, recentBlockhash)
     ELSE SignedTx(SystemTransfer(keypair, feeWallet, fee \div FeeFallbackDivisor),
                   keypair, recentBlockhash)

\* mutant: the tip is paid to the fee wallet
TipTxToFeeWallet(keypair, tip, recentBlockhash) ==
  SignedTx(SystemTransfer(keypair, feeWallet, tipAmount), keypair, recentBlockhash)

\* the tip transaction of both bundle handlers
TipTx(keypair, tip, recentBlockhash) ==
  SignedTx(SystemTransfer(keypair, tip, tipAmount), keypair, recentBlockhash)

\* mutant: the tip transaction put first
CreationBundleTxsTipFirst(userSignedTx, feeTx, tipTx) == <<tipTx, userSignedTx, feeTx>>

\* [userSignedTx, feeTx, tipTx]: the transactions of a creation bundle
CreationBundleTxs(userSignedTx, feeTx, tipTx) == <<userSignedTx, feeTx, tipTx>>

\* mutant: the tip transaction put first
CancelBundleTxsTipFirst(userTransactions, tipTx) == <<tipTx>> \o userTransactions

\* [...userTransactions, tipTx]: the transactions of a cancellation bundle
CancelBundleTxs(userTransactions, tipTx) == userTransactions \o <<tipTx>>

\* new Bundle(txs, transactionLimit)
NewBundle(txs, limit) == [txs |-> txs, transactionLimit |-> limit]

\* mutant: an empty list yields the all-zero default key instead of undefined
PickAccountOrDefault(accounts, i) ==
  IF i < Len(accounts) THEN Some(accounts[i + 1])
  ELSE Some("11111111111111111111111111111111")

\* accounts[Math.floor(Math.random() * accounts.length)] for the 0-based index i
PickAccount(accounts, i) == IF i < Len(accounts) THEN Some(accounts[i + 1]) ELSE None

\* the indexes Math.floor(Math.random() * n) can give
RandomIndexes(n) == IF n = 0 THEN {0} ELSE 0..(n - 1)

\* mutant: the blockhash is requested together with the tip accounts
CallsUpToFirstAwaitEager(route) ==
  IF route = "create-order-jito" THEN <<"readFileSync", "fetch createOrder">>
  ELSE <<"readFileSync", "searcherClient", "onBundleResult", "getTipAccounts",
         "getLatestBlockhash">>

\* what a configured handler calls from its entry up to its first await
CallsUpToFirstAwait(route) ==
  IF route = "create-order-jito" THEN <<"readFileSync", "fetch createOrder">>
  ELSE <<"readFileSync", "searcherClient", "onBundleResult", "getTipAccounts">>

(***************************************************************************)
(* A request arrives                                                       *)
(***************************************************************************)
Receive ==
  /\ pc = "idle"
  /\ req' \in Requests
  /\ pc' = "received"
  /\ UiInit
  /\ UNCHANGED <<ui, config, parked, bundleLog, calls, responses, locals>>

(***************************************************************************)
(* submit-jito-bundle                                                      *)
(***************************************************************************)
\* handler entry up to the first await (getTipAccounts)
SubmitJitoStart ==
  /\ pc = "received"
  /\ req.route = "submit-jito-bundle"
  /\ UNCHANGED <<ui, config, parked, bundleLog, req, tipAccounts, tipAccount, userTxs, blockHash, feeAmountUnits, bundle,
                 sendResult, order>>
  /\ IF ~MethodAllowed(req.route, req.method)
     THEN Fail(405, MethodNotAllowed) /\ UNCHANGED <<calls, cfg>>
     ELSE IF req.body.isNull
     THEN OuterCatch(TypeErrorDestructure) /\ UNCHANGED <<calls, cfg>>
     ELSE
       LET blockEngineUrl == Setting(envFile, procEnv, "BLOCK_ENGINE_URL")
           authKeypairPath == Setting(envFile, procEnv, "AUTH_KEYPAIR_PATH")
           rpcUrl == Setting(envFile, procEnv, "RPC_URL")
           limit == BundleTransactionLimit(envFile, procEnv)
       IN IF BundleConfigMissing(blockEngineUrl, authKeypairPath, rpcUrl)
          THEN /\ Fail(500, ConfigMissingBundle)
               /\ calls' = Append(calls, "readFileSync")
               /\ UNCHANGED cfg
          ELSE IF ~KeypairParses(Val(authKeypairPath))
          THEN /\ Fail(500, InvalidKeypair)
               /\ calls' = Append(calls, "readFileSync")
               /\ UNCHANGED cfg
          ELSE /\ cfg' = Some([blockEngineUrl |-> blockEngineUrl,
                               serverKeypair |-> KeypairOf(Val(authKeypairPath)),
                               rpcUrl |-> rpcUrl,
                               bundleTransactionLimit |-> limit])
               /\ calls' = calls \o CallsUpToFirstAwait(req.route)
               /\ pc' = "await_tip"
               /\ UNCHANGED responses

\* getTipAccounts settles: pick the tip account, deserialize the caller's
\* transaction, ask for the latest blockhash
SubmitJitoTipAccounts ==
  /\ pc = "await_tip"
  /\ req.route = "submit-jito-bundle"
  /\ UNCHANGED <<ui, config, parked, bundleLog, req, cfg, blockHash, feeAmountUnits, bundle, sendResult, order>>
  /\ \E r \in TipResults :
       IF r.kind = "throw"
       THEN OuterCatch(r.message) /\ UNCHANGED <<calls, tipAccounts, tipAccount, userTxs>>
       ELSE IF r.kind = "err"
       THEN /\ OuterCatch("Failed to get tip accounts: " \o r.message)
            /\ UNCHANGED <<calls, tipAccounts, tipAccount, userTxs>>
       ELSE \E i \in RandomIndexes(Len(r.value)) :
         LET picked == PickAccount(r.value, i)
             st == req.body.signedTransaction
         IN /\ tipAccounts' = Some(r.value)
            /\ IF ~IsSome(picked)
               THEN OuterCatch(TypeErrorBn) /\ UNCHANGED <<calls, tipAccount, userTxs>>
               ELSE IF ~IsPublicKeyString(Val(picked))
               THEN OuterCatch(InvalidPublicKey) /\ UNCHANGED <<calls, tipAccount, userTxs>>
               ELSE /\ tipAccount' = picked
                    /\ IF ~IsSome(st)
                       THEN OuterCatch(TypeErrorBuffer) /\ UNCHANGED <<calls, userTxs>>
                       ELSE IF ~Deserializes(Val(st))
                       THEN OuterCatch(DeserializeError) /\ UNCHANGED <<calls, userTxs>>
                       ELSE IF Deserialize(Val(st)).signatures = <<>>
                       THEN /\ OuterCatch(EncodeError)
                            /\ userTxs' = <<Deserialize(Val(st))>>
                            /\ UNCHANGED calls
                       ELSE /\ userTxs' = <<Deserialize(Val(st))>>
                            /\ calls' = Append(calls, "getLatestBlockhash")
                            /\ pc' = "await_blockhash"
                            /\ UNCHANGED responses

\* getLatestBlockhash settles: build the fee and tip transactions, assemble
\* the bundle and hand it to sendBundle
SubmitJitoBlockhash ==
  /\ pc = "await_blockhash"
  /\ req.route = "submit-jito-bundle"
  /\ UNCHANGED <<ui, config, parked, bundleLog, req, cfg, tipAccounts, tipAccount, userTxs, sendResult, order>>
  /\ \E r \in BlockhashResults, splFails \in BOOLEAN :
       IF r.kind = "throw"
       THEN OuterCatch(r.message) /\ UNCHANGED <<calls, blockHash, feeAmountUnits, bundle>>
       ELSE LET keypair == Val(cfg).serverKeypair
                feeTx == FeeTx(req.body.inputMint, req.body.makingAmount, keypair,
                               r.value, splFails)
                tipTx == TipTx(keypair, Val(tipAccount), r.value)
            IN /\ blockHash' = Some(r.value)
               /\ feeAmountUnits' = Some(FeeAmountUnits(req.body.makingAmount))
               /\ bundle' = Some(NewBundle(CreationBundleTxs(userTxs[1], feeTx, tipTx),
                                           Val(cfg).bundleTransactionLimit))
               /\ calls' = Append(calls, "sendBundle")
               /\ pc' = "await_send"
               /\ UNCHANGED responses

\* sendBundle settles: answer the request
SubmitJitoSendBundle ==
  /\ pc = "await_send"
  /\ req.route = "submit-jito-bundle"
  /\ UNCHANGED <<ui, config, parked, bundleLog, req, calls, cfg, tipAccounts, tipAccount, userTxs, blockHash,
                 feeAmountUnits, bundle, order>>
  /\ \E r \in SendResults :
       /\ sendResult' = Some(r)
       /\ pc' = "done"
       /\ IF r.kind = "ok"
          THEN Respond(200, [success |-> TRUE, bundleId |-> r.value,
                             signature |-> FirstSignature(userTxs[1])])
          ELSE Respond(500, [success |-> FALSE,
                             error |-> BundleSubmissionFailed(r.message)])

(***************************************************************************)
(* Bundle results                                                          *)
(***************************************************************************)
\* what the relay's bundle-result stream can deliver to a subscriber
NotificationKinds == {"result", "error"}

\* the handler has subscribed: searcherClientInstance.onBundleResult(...)
Subscribed == \E i \in 1..Len(calls) : calls[i] = "onBundleResult"

\* mutant: the callback answers the request with what it was told
OnBundleResultAnswering(kind) ==
  /\ bundleLog' = Append(bundleLog, kind)
  /\ Respond(IF kind = "result" THEN 200 ELSE 500,
             [success |-> kind = "result", error |-> "bundle " \o kind])
  /\ UNCHANGED <<pc, req, calls, locals>>

\* the two callbacks given to onBundleResult: console.log of a result,
\* console.error of an error, nothing else
OnBundleResult(kind) ==
  /\ bundleLog' = Append(bundleLog, kind)
  /\ UNCHANGED <<pc, req, calls, responses, locals>>

\* the relay delivers a bundle result or a stream error to the callbacks of
\* a request that has subscribed; the handler may be waiting at any of its
\* awaits or may already have answered
BundleResultNotification ==
  /\ req.route \in {"submit-jito-bundle", "submit-cancel-bundle"}
  /\ Subscribed
  /\ Len(bundleLog) < MaxNotifications
  /\ \E kind \in NotificationKinds : OnBundleResult(kind)
  /\ UNCHANGED <<ui, config, parked>>

(***************************************************************************)
(* submit-cancel-bundle                                                    *)
(***************************************************************************)
RECURSIVE DeserializeAllSkippingBad(_, _)
\* mutant: a blob that does not deserialize is skipped, the rest is kept
DeserializeAllSkippingBad(blobs, acc) ==
  IF blobs = <<>> THEN [txs |-> acc, error |-> None]
  ELSE IF ~Deserializes(Head(blobs))
  THEN DeserializeAllSkippingBad(Tail(blobs), acc)
  ELSE IF Deserialize(Head(blobs)).signatures = <<>>
  THEN [txs |-> Append(acc, Deserialize(Head(blobs))), error |-> Some(EncodeError)]
  ELSE DeserializeAllSkippingBad(Tail(blobs), Append(acc, Deserialize(Head(blobs))))

RECURSIVE DeserializeAll(_, _)
\* signedTransactions.forEach: deserialize, push, then encode the first
\* signature for the log; the first blob that throws ends the loop
DeserializeAll(blobs, acc) ==
  IF blobs = <<>> THEN [txs |-> acc, error |-> None]
  ELSE IF ~Deserializes(Head(blobs))
  THEN [txs |-> acc, error |-> Some(DeserializeError)]
  ELSE IF Deserialize(Head(blobs)).signatures = <<>>
  THEN [txs |-> Append(acc, Deserialize(Head(blobs))), error |-> Some(EncodeError)]
  ELSE DeserializeAll(Tail(blobs), Append(acc, Deserialize(Head(blobs))))

\* handler entry up to the first await (getTipAccounts)
SubmitCancelStart ==
  /\ pc = "received"
  /\ req.route = "submit-cancel-bundle"
  /\ UNCHANGED <<ui, config, parked, bundleLog, req, tipAccounts, tipAccount, userTxs, blockHash, feeAmountUnits, bundle,
                 sendResult, order>>
  /\ IF ~MethodAllowed(req.route, req.method)
     THEN Fail(405, MethodNotAllowed) /\ UNCHANGED <<calls, cfg>>
     ELSE IF req.body.isNull
     THEN OuterCatch(TypeErrorDestructure) /\ UNCHANGED <<calls, cfg>>
     ELSE IF ~IsSome(req.body.orderIds) \/ ~IsSome(req.body.signedTransactions)
     THEN OuterCatch(TypeErrorLength) /\ UNCHANGED <<calls, cfg>>
     ELSE
       LET blockEngineUrl == Setting(envFile, procEnv, "BLOCK_ENGINE_URL")
           authKeypairPath == Setting(envFile, procEnv, "AUTH_KEYPAIR_PATH")
           rpcUrl == Setting(envFile, procEnv, "RPC_URL")
           limit == BundleTransactionLimit(envFile, procEnv)
       IN IF BundleConfigMissing(blockEngineUrl, authKeypairPath, rpcUrl)
          THEN /\ Fail(500, ConfigMissingBundle)
               /\ calls' = Append(calls, "readFileSync")
               /\ UNCHANGED cfg
          ELSE IF ~KeypairParses(Val(authKeypairPath))
          THEN /\ Fail(500, InvalidKeypair)
               /\ calls' = Append(calls, "readFileSync")
               /\ UNCHANGED cfg
          ELSE /\ cfg' = Some([blockEngineUrl |-> blockEngineUrl,
                               serverKeypair |-> KeypairOf(Val(authKeypairPath)),
                               rpcUrl |-> rpcUrl,
                               bundleTransactionLimit |-> limit])
               /\ calls' = calls \o CallsUpToFirstAwait(req.route)
               /\ pc' = "await_tip"
               /\ UNCHANGED responses

\* getTipAccounts settles: pick the tip account, deserialize every caller
\* transaction, ask for the latest blockhash
SubmitCancelTipAccounts ==
  /\ pc = "await_tip"
  /\ req.route = "submit-cancel-bundle"
  /\ UNCHANGED <<ui, config, parked, bundleLog, req, cfg, blockHash, feeAmountUnits, bundle, sendResult, order>>
  /\ \E r \in TipResults :
       IF r.kind = "throw"
       THEN OuterCatch(r.message) /\ UNCHANGED <<calls, tipAccounts, tipAccount, userTxs>>
       ELSE IF r.kind = "err"
       THEN /\ OuterCatch("Failed to get tip accounts: " \o r.message)
            /\ UNCHANGED <<calls, tipAccounts, tipAccount, userTxs>>
       ELSE \E i \in RandomIndexes(Len(r.value)) :
         LET picked == PickAccount(r.value, i)
             all == DeserializeAll(Val(req.body.signedTransactions), <<>>)
         IN /\ tipAccounts' = Some(r.value)
            /\ IF ~IsSome(picked)
               THEN OuterCatch(TypeErrorBn) /\ UNCHANGED <<calls, tipAccount, userTxs>>
               ELSE IF ~IsPublicKeyString(Val(picked))
               THEN OuterCatch(InvalidPublicKey) /\ UNCHANGED <<calls, tipAccount, userTxs>>
               ELSE /\ tipAccount' = picked
                    /\ userTxs' = all.txs
                    /\ IF IsSome(all.error)
                       THEN OuterCatch(Val(all.error)) /\ UNCHANGED calls
                       ELSE /\ calls' = Append(calls, "getLatestBlockhash")
                            /\ pc' = "await_blockhash"
                            /\ UNCHANGED responses

\* getLatestBlockhash settles: build the tip transaction, assemble the bundle
\* and hand it to sendBundle
SubmitCancelBlockhash ==
  /\ pc = "await_blockhash"
  /\ req.route = "submit-cancel-bundle"
  /\ UNCHANGED <<ui, config, parked, bundleLog, req, cfg, tipAccounts, tipAccount, userTxs, feeAmountUnits,
                 sendResult, order>>
  /\ \E r \in BlockhashResults :
       IF r.kind = "throw"
       THEN OuterCatch(r.message) /\ UNCHANGED <<calls, blockHash, bundle>>
       ELSE LET tipTx == TipTx(Val(cfg).serverKeypair, Val(tipAccount), r.value)
            IN /\ blockHash' = Some(r.value)
               /\ bundle' = Some(NewBundle(CancelBundleTxs(userTxs, tipTx),
                                           Val(cfg).bundleTransactionLimit))
               /\ calls' = Append(calls, "sendBundle")
               /\ pc' = "await_send"
               /\ UNCHANGED responses

\* sendBundle settles: answer the request
SubmitCancelSendBundle ==
  /\ pc = "await_send"
  /\ req.route = "submit-cancel-bundle"
  /\ UNCHANGED <<ui, config, parked, bundleLog, req, calls, cfg, tipAccounts, tipAccount, userTxs, blockHash,
                 feeAmountUnits, bundle, order>>
  /\ \E r \in SendResults :
       /\ sendResult' = Some(r)
       /\ pc' = "done"
       /\ IF r.kind = "ok"
          THEN Respond(200, [success |-> TRUE, bundleId |-> r.value,
                             signatures |-> SeqMap(FirstSignature, userTxs)])
          ELSE Respond(500, [success |-> FALSE,
                             error |-> CancelBundleSubmissionFailed(r.message)])

(***************************************************************************)
(* create-order-jito                                                       *)
(***************************************************************************)
\* handler entry up to the first await (the aggregator's createOrder)
CreateOrderStart ==
  /\ pc = "received"
  /\ req.route = "create-order-jito"
  /\ UNCHANGED <<ui, config, parked, bundleLog, req, tipAccounts, tipAccount, userTxs, blockHash, feeAmountUnits, bundle,
                 sendResult, order>>
  /\ IF ~MethodAllowed(req.route, req.method)
     THEN Fail(405, MethodNotAllowed) /\ UNCHANGED <<calls, cfg>>
     ELSE IF req.body.isNull
     THEN OuterCatch(TypeErrorDestructure) /\ UNCHANGED <<calls, cfg>>
     ELSE
       LET authKeypairPath == Setting(envFile, procEnv, "AUTH_KEYPAIR_PATH")
           rpcUrl == Setting(envFile, procEnv, "RPC_URL")
       IN IF CreateConfigMissing(authKeypairPath, rpcUrl)
          THEN /\ Fail(500, ConfigMissingCreate)
               /\ calls' = Append(calls, "readFileSync")
               /\ UNCHANGED cfg
          ELSE IF ~KeypairParses(Val(authKeypairPath))
          THEN /\ Fail(500, InvalidKeypair)
               /\ calls' = Append(calls, "readFileSync")
               /\ UNCHANGED cfg
          ELSE /\ cfg' = Some([blockEngineUrl |-> None,
                               serverKeypair |-> KeypairOf(Val(authKeypairPath)),
                               rpcUrl |-> rpcUrl,
                               bundleTransactionLimit |-> DefaultBundleTransactionLimit])
               /\ calls' = calls \o CallsUpToFirstAwait(req.route)
               /\ pc' = "await_aggregator"
               /\ UNCHANGED responses

\* versionedTx.sign([owner]): the server's signature goes first
SignWith(tx, keypair) ==
  [tx EXCEPT !.signatures = <<[signer |-> keypair, over |-> tx.blob]>>]

\* what the handler reads of a fetch Response: ok, status, text()
HttpResponse(ok, status, text) == [ok |-> ok, status |-> status, text |-> text]

\* mutant: the aggregator's status and text are left out of the message
JupiterApiErrorBare(status, text) == "Jupiter API error"

\* `Jupiter API error: ${createOrderResponse.status} ${errorText}`
JupiterApiError(status, text) == "Jupiter API error: " \o status \o " " \o text

\* the aggregator answers: deserialize and sign its transaction, ask for the
\* latest blockhash
CreateOrderAggregator ==
  /\ pc = "await_aggregator"
  /\ req.route = "create-order-jito"
  /\ UNCHANGED <<ui, config, parked, bundleLog, req, cfg, tipAccounts, tipAccount, userTxs, blockHash, feeAmountUnits, bundle,
                 sendResult>>
  /\ \E r \in CreateOrderResults :
       IF r.kind = "throw"
       THEN OuterCatch(r.message) /\ UNCHANGED <<calls, order>>
       ELSE IF r.kind = "http"
       THEN /\ createOrderResponse' = Some(HttpResponse(FALSE, r.status, r.text))
            /\ Fail(500, JupiterApiError(r.status, r.text))
            /\ UNCHANGED <<calls, jupiterResult, versionedTx, confirmation>>
       ELSE /\ createOrderResponse' = Some(HttpResponse(TRUE, "200", ""))
            /\ jupiterResult' = Some(r)
            /\ UNCHANGED confirmation
            /\ IF ~IsSome(r.tx)
               THEN OuterCatch(TypeErrorBuffer) /\ UNCHANGED <<calls, versionedTx>>
               ELSE IF ~Deserializes(Val(r.tx))
               THEN OuterCatch(DeserializeError) /\ UNCHANGED <<calls, versionedTx>>
               ELSE /\ versionedTx' = Some(SignWith(Deserialize(Val(r.tx)),
                                                    Val(cfg).serverKeypair))
                    /\ calls' = Append(calls, "getLatestBlockhash")
                    /\ pc' = "await_blockhash"
                    /\ UNCHANGED responses

\* getLatestBlockhash settles: send the transaction to the ledger
CreateOrderBlockhash ==
  /\ pc = "await_blockhash"
  /\ req.route = "create-order-jito"
  /\ UNCHANGED <<ui, config, parked, bundleLog, req, cfg, tipAccounts, tipAccount, userTxs, feeAmountUnits,
                 bundle, sendResult, order>>
  /\ \E r \in BlockhashResults :
       IF r.kind = "throw"
       THEN OuterCatch(r.message) /\ UNCHANGED <<calls, blockHash>>
       ELSE /\ blockHash' = Some(r.value)
            /\ calls' = Append(calls, "sendTransaction")
            /\ pc' = "await_sendtx"
            /\ UNCHANGED responses

\* sendTransaction settles: wait for the confirmation
CreateOrderSendTransaction ==
  /\ pc = "await_sendtx"
  /\ req.route = "create-order-jito"
  /\ UNCHANGED <<ui, config, parked, bundleLog, req, locals>>
  /\ \E r \in SendTransactionResults :
       IF r.kind = "throw"
       THEN Fail(500, "Transaction failed: " \o r.message) /\ UNCHANGED calls
       ELSE /\ calls' = Append(calls, "confirmTransaction")
            /\ pc' = "await_confirm"
            /\ UNCHANGED responses

\* confirmTransaction settles: answer the request
CreateOrderConfirm ==
  /\ pc = "await_confirm"
  /\ req.route = "create-order-jito"
  /\ UNCHANGED <<ui, config, parked, bundleLog, req, calls, cfg, tipAccounts, tipAccount, userTxs,
                 blockHash, feeAmountUnits, bundle, sendResult, jupiterResult, versionedTx,
                 createOrderResponse>>
  /\ pc' = "done"
  /\ \E r \in ConfirmResults :
       IF r.kind = "throw"
       THEN /\ Respond(500, [success |-> FALSE,
                             error |-> "Transaction failed: " \o r.message])
            /\ UNCHANGED confirmation
       ELSE /\ confirmation' = Some([err |-> r.err])
            /\ IF IsSome(r.err)
               THEN Respond(500, [success |-> FALSE,
                                  error |-> "Transaction failed: Transaction failed: "
                                               \o Val(r.err)])
               ELSE Respond(200, JsonOrderCreated(Val(jupiterResult).order))

(***************************************************************************)
(* open-orders                                                             *)
(***************************************************************************)
\* handler entry up to the fetch of the aggregator's listing
OpenOrdersStart ==
  /\ pc = "received"
  /\ req.route = "open-orders"
  /\ UNCHANGED <<ui, config, parked, bundleLog, req, locals>>
  /\ IF ~MethodAllowed(req.route, req.method)
     THEN Fail(405, MethodNotAllowed) /\ UNCHANGED calls
     ELSE IF req.wallet.kind # "string"
     THEN Fail(400, "Wallet address is required") /\ UNCHANGED calls
     ELSE /\ calls' = Append(calls, "fetch openOrders")
          /\ pc' = "await_aggregator"
          /\ UNCHANGED responses

\* the aggregator answers: pass the listing on
OpenOrdersAggregator ==
  /\ pc = "await_aggregator"
  /\ req.route = "open-orders"
  /\ UNCHANGED <<ui, config, parked, bundleLog, req, calls, locals>>
  /\ \E r \in OpenOrdersResults :
       IF r.kind = "throw"
       THEN OuterCatch(r.message)
       ELSE IF r.kind = "http"
       THEN Fail(500, "Jupiter API error: " \o r.status \o " " \o r.text)
       ELSE /\ Respond(200, [success |-> TRUE, orders |-> r.orders])
            /\ pc' = "done"

(***************************************************************************)
(* OrderManagement: wallet, listing                                        *)
(***************************************************************************)
\* Browser steps and server steps share no state, so they are explored one
\* side at a time: the browser moves while the server, fully configured, is
\* handling no request, and the server handles requests while the component
\* is as first mounted.
PageTurn ==
  /\ pc = "idle"
  /\ envFile = FileFull /\ procEnv = EmptyEnv
  /\ UNCHANGED <<config, parked, backend>>

\* a step of the OrderManagement component: the Home page's lists and the
\* form are not touched (the onOrderCancelled calls of a poll are recorded in
\* onOrderCancelledCalls; what the Home page does with them is explored by
\* HomeSpec)
BrowserTurn == PageTurn /\ UNCHANGED <<home, form>>

\* order => order.publicKey
OrderId(o) == o.publicKey

\* what fetchOpenOrders does once its fetch has settled: the pair
\* <<orders, errorMessage>> it leaves, given the values before
FetchOpenOrdersResult(r, curOrders) ==
  IF r.kind = "ok" THEN <<r.orders, None>>
  ELSE IF r.kind = "http"
  THEN <<curOrders, Some("Failed to fetch orders: " \o r.status \o " " \o r.text)>>
  ELSE <<curOrders, Some(IF r.message = "" THEN "Failed to fetch orders" ELSE r.message)>>

\* the wallet connects: the effect on publicKey starts fetchOpenOrders
WalletConnect ==
  /\ BrowserTurn
  /\ wallet = None
  /\ refreshPc = "idle"
  /\ wallet' \in {Some(w) : w \in Wallets}
  /\ isLoading' = TRUE
  /\ errorMessage' = None
  /\ refreshPc' = "fetching"
  /\ UNCHANGED <<orders, isCancellingInProgress, cancellingOrderIds, cancel, poll>>

\* the wallet disconnects: the effect clears the list
WalletDisconnect ==
  /\ BrowserTurn
  /\ wallet # None
  /\ wallet' = None
  /\ orders' = <<>>
  /\ UNCHANGED <<isLoading, isCancellingInProgress, cancellingOrderIds, errorMessage,
                 refreshPc, cancel, poll>>

\* the Refresh button, disabled while loading or cancelling
RefreshClick ==
  /\ BrowserTurn
  /\ wallet # None
  /\ ~isLoading /\ ~isCancellingInProgress
  /\ refreshPc = "idle"
  /\ isLoading' = TRUE
  /\ errorMessage' = None
  /\ refreshPc' = "fetching"
  /\ UNCHANGED <<wallet, orders, isCancellingInProgress, cancellingOrderIds, cancel, poll>>

\* the fetch of a fetchOpenOrders started by the effect or the button settles
RefreshReturn ==
  /\ BrowserTurn
  /\ refreshPc = "fetching"
  /\ \E r \in ListingResults :
       LET res == FetchOpenOrdersResult(r, orders)
       IN /\ orders' = res[1]
          /\ errorMessage' = IF r.kind = "ok" THEN errorMessage ELSE res[2]
  /\ isLoading' = FALSE
  /\ refreshPc' = "idle"
  /\ UNCHANGED <<wallet, isCancellingInProgress, cancellingOrderIds, cancel, poll>>

(***************************************************************************)
(* OrderManagement: handleCancelOrder and handleCancelAllOrders            *)
(***************************************************************************)
\* mutant: the cancel buttons stay enabled while a cancellation is running
CancelButtonsEnabledWhileCancelling ==
  /\ wallet # None
  /\ ~isLoading
  /\ orders # <<>>

\* the list and its buttons are rendered when a wallet is connected and the
\* list is not loading; every cancel button is disabled while cancelling
CancelButtonsEnabled ==
  /\ wallet # None
  /\ ~isLoading
  /\ ~isCancellingInProgress
  /\ orders # <<>>

\* the catch block of both handlers
CancelFailed(m, fallback) ==
  /\ errorMessage' = Some(IF m = "" THEN fallback ELSE m)
  /\ isCancellingInProgress' = FALSE
  /\ cancellingOrderIds' = <<>>
  /\ cancelPc' = "idle"
  /\ cancelFlow' = NoFlow

FallbackMessage(kind) ==
  IF kind = "one" THEN "Failed to cancel order" ELSE "Failed to cancel all orders"

\* click on the Cancel button of one order
HandleCancelOrder ==
  /\ BrowserTurn
  /\ CancelButtonsEnabled
  /\ cancelPc = "idle"
  /\ pollPc = "none"
  /\ UNCHANGED <<wallet, orders, isLoading, refreshPc, poll>>
  /\ \E i \in 1..Len(orders) :
       IF ~Val(wallet).signTransaction
       THEN /\ errorMessage' = Some("Please connect your wallet first")
            /\ UNCHANGED <<isCancellingInProgress, cancellingOrderIds, cancel>>
       ELSE /\ isCancellingInProgress' = TRUE
            /\ cancellingOrderIds' = <<OrderId(orders[i])>>
            /\ errorMessage' = None
            /\ cancelPc' = "fetch"
            /\ cancelFlow' = [kind |-> "one", ids |-> <<OrderId(orders[i])>>,
                              pending |-> <<>>, signedTransactions |-> <<>>]

\* click on Cancel All Orders
HandleCancelAllOrders ==
  /\ BrowserTurn
  /\ CancelButtonsEnabled
  /\ cancelPc = "idle"
  /\ pollPc = "none"
  /\ UNCHANGED <<wallet, orders, isLoading, refreshPc, poll>>
  /\ IF ~Val(wallet).signTransaction
     THEN /\ errorMessage' = Some("Please connect your wallet first")
          /\ UNCHANGED <<isCancellingInProgress, cancellingOrderIds, cancel>>
     ELSE /\ isCancellingInProgress' = TRUE
          /\ cancellingOrderIds' = SeqMap(OrderId, orders)
          /\ errorMessage' = None
          /\ cancelPc' = "fetch"
          /\ cancelFlow' = [kind |-> "all", ids |-> SeqMap(OrderId, orders),
                            pending |-> <<>>, signedTransactions |-> <<>>]

\* the aggregator's cancelOrders answers: start signing its transactions
CancelFetchReturn ==
  /\ BrowserTurn
  /\ cancelPc = "fetch"
  /\ UNCHANGED <<wallet, orders, isLoading, refreshPc, poll>>
  /\ \E r \in CancelOrdersResults :
       IF r.kind = "throw"
       THEN CancelFailed(r.message, FallbackMessage(cancelFlow.kind))
       ELSE IF r.kind = "http"
       THEN CancelFailed("Jupiter API error: " \o r.status \o " " \o r.text,
                         FallbackMessage(cancelFlow.kind))
       ELSE IF r.txs = <<>>
       THEN CancelFailed("No transactions returned from Jupiter API",
                         FallbackMessage(cancelFlow.kind))
       ELSE IF ~Deserializes(Head(r.txs))
       THEN CancelFailed(DeserializeError, FallbackMessage(cancelFlow.kind))
       ELSE /\ cancelFlow' = [cancelFlow EXCEPT !.pending = r.txs]
            /\ cancelPc' = "sign"
            /\ UNCHANGED <<isCancellingInProgress, cancellingOrderIds, errorMessage>>

\* signTransaction settles for the first pending transaction: sign the next
\* one, or post the signed ones to /api/submit-cancel-bundle
CancelSignReturn ==
  /\ BrowserTurn
  /\ cancelPc = "sign"
  /\ UNCHANGED <<wallet, orders, isLoading, refreshPc, poll>>
  /\ \E r \in SignResults :
       LET rest == Tail(cancelFlow.pending)
           signed == Append(cancelFlow.signedTransactions,
                            <<"signed", Head(cancelFlow.pending)>>)
       IN IF r.kind = "throw"
          THEN CancelFailed(r.message, FallbackMessage(cancelFlow.kind))
          ELSE IF rest # <<>> /\ ~Deserializes(Head(rest))
          THEN CancelFailed(DeserializeError, FallbackMessage(cancelFlow.kind))
          ELSE /\ cancelFlow' = [cancelFlow EXCEPT !.pending = rest,
                                                  !.signedTransactions = signed]
               /\ cancelPc' = IF rest = <<>> THEN "submit" ELSE "sign"
               /\ UNCHANGED <<isCancellingInProgress, cancellingOrderIds, errorMessage>>

\* mutant: one attempt too many
LoopContinuesInclusive(n) == n <= maxAttempts

\* the loop condition of pollForOrderCancellation
LoopContinues(n) == n < maxAttempts

\* POST /api/submit-cancel-bundle answers: on success start polling (the poll
\* runs up to its first fetch) and the handler returns
CancelSubmitReturn ==
  /\ BrowserTurn
  /\ cancelPc = "submit"
  /\ UNCHANGED <<wallet, orders, isLoading, refreshPc>>
  /\ \E r \in SubmitCancelResults :
       IF r.kind = "throw"
       THEN CancelFailed(r.message, FallbackMessage(cancelFlow.kind)) /\ UNCHANGED poll
       ELSE IF r.kind = "http"
       THEN /\ CancelFailed("Jito bundling error: " \o r.status \o " " \o r.text,
                            FallbackMessage(cancelFlow.kind))
            /\ UNCHANGED poll
       ELSE /\ orderIdsToCheck' = cancelFlow.ids
            /\ attempts' = 0
            /\ lastListing' = None
            /\ pollChecks' = 1
            /\ pollRefreshes' = 0
            /\ onOrderCancelledCalls' = <<>>
            /\ pollPc' = "check"
            /\ cancelPc' = "idle"
            /\ cancelFlow' = NoFlow
            /\ UNCHANGED <<isCancellingInProgress, cancellingOrderIds, errorMessage>>

(***************************************************************************)
(* OrderManagement: pollForOrderCancellation                               *)
(***************************************************************************)
\* mutant: every identifier must still be listed, instead of some
StillExistsEvery(ids, listing) ==
  \A i \in 1..Len(ids) : \E j \in 1..Len(listing) : OrderId(listing[j]) = ids[i]

\* orderIdsToCheck.some(orderId => currentOrderIds.includes(orderId))
StillExists(ids, listing) ==
  \E i \in 1..Len(ids) : \E j \in 1..Len(listing) : OrderId(listing[j]) = ids[i]

\* the value checkOrders resolves to for the settled fetch r
CheckOrders(r, ids) == r.kind = "ok" /\ ~StillExists(ids, r.orders)

\* the fetch of checkOrders settles: refresh when the orders are gone,
\* otherwise count the attempt and sleep
PollCheckReturn ==
  /\ BrowserTurn
  /\ pollPc = "check"
  /\ UNCHANGED <<wallet, orders, isCancellingInProgress, cancellingOrderIds, refreshPc,
                 cancel, orderIdsToCheck, pollChecks, onOrderCancelledCalls>>
  /\ \E r \in ListingResults :
       /\ lastListing' = Some(r)
       /\ IF CheckOrders(r, orderIdsToCheck)
          THEN /\ isLoading' = TRUE
               /\ errorMessage' = None
               /\ pollRefreshes' = pollRefreshes + 1
               /\ pollPc' = "refresh_cancelled"
               /\ UNCHANGED attempts
          ELSE /\ attempts' = attempts + 1
               /\ pollPc' = "sleep"
               /\ UNCHANGED <<isLoading, errorMessage, pollRefreshes>>

\* the 2 s timer fires: check again, or give up and refresh
PollSleepReturn ==
  /\ BrowserTurn
  /\ pollPc = "sleep"
  /\ UNCHANGED <<wallet, orders, isCancellingInProgress, cancellingOrderIds, refreshPc,
                 cancel, orderIdsToCheck, attempts, lastListing, onOrderCancelledCalls>>
  /\ IF LoopContinues(attempts)
     THEN /\ pollChecks' = pollChecks + 1
          /\ pollPc' = "check"
          /\ UNCHANGED <<isLoading, errorMessage, pollRefreshes>>
     ELSE /\ isLoading' = TRUE
          /\ errorMessage' = None
          /\ pollRefreshes' = pollRefreshes + 1
          /\ pollPc' = "refresh_final"
          /\ UNCHANGED pollChecks

\* mutant: completion is reported on the give-up path too
ReportsCompletionAlways(refreshPosition) == TRUE

\* onOrderCancelled?.(orderIdsToCheck) follows the refresh of the cancelled
\* branch only; the refresh after the loop is followed by no call
ReportsCompletion(refreshPosition) == refreshPosition = "refresh_cancelled"

\* the poll's fetchOpenOrders settles: clear the cancelling state and, when
\* the orders were seen gone, tell the page
PollRefreshReturn ==
  /\ BrowserTurn
  /\ pollPc \in {"refresh_cancelled", "refresh_final"}
  /\ UNCHANGED <<wallet, refreshPc, cancel, orderIdsToCheck, attempts, lastListing,
                 pollChecks, pollRefreshes>>
  /\ \E r \in ListingResults :
       LET res == FetchOpenOrdersResult(r, orders)
       IN /\ orders' = res[1]
          /\ errorMessage' = IF r.kind = "ok" THEN errorMessage ELSE res[2]
  /\ isLoading' = FALSE
  /\ isCancellingInProgress' = FALSE
  /\ cancellingOrderIds' = <<>>
  /\ onOrderCancelledCalls' =
       IF ReportsCompletion(pollPc)
       THEN Append(onOrderCancelledCalls, orderIdsToCheck)
       ELSE onOrderCancelledCalls
  /\ pollPc' = "returned"

\* the promise of the poll has settled; its locals are gone
PollFinish ==
  /\ BrowserTurn
  /\ pollPc = "returned"
  /\ pollPc' = "none"
  /\ orderIdsToCheck' = <<>>
  /\ attempts' = 0
  /\ lastListing' = None
  /\ pollChecks' = 0
  /\ pollRefreshes' = 0
  /\ onOrderCancelledCalls' = <<>>
  /\ UNCHANGED <<component, cancel>>

(***************************************************************************)
(* Home page: handleOrderCreated, handleOrderCancelled, the refresh timer  *)
(***************************************************************************)
\* prev.slice(0, n)
Take(prev, n) == SubSeq(prev, 1, IF Len(prev) < n THEN Len(prev) ELSE n)

\* mutant: one more entry of the previous list is kept
RecentAfterKeepingOneMore(prev, orderId) == <<orderId>> \o Take(prev, KeptRecent + 1)

\* setRecentOrders(prev => [orderId, ...prev.slice(0, 4)])
RecentAfter(prev, orderId) == <<orderId>> \o Take(prev, KeptRecent)

\* setCancelledOrders(prev => [...orderIds, ...prev.slice(0, 10)])
CancelledAfter(prev, orderIds) == orderIds \o Take(prev, KeptCancelled)

\* handleOrderCreated: orderManagementRef.current is set once the page has
\* mounted, so the timer is always set
HandleOrderCreated(orderId) ==
  /\ recentOrders' = RecentAfter(recentOrders, orderId)
  /\ created' = Append(created, orderId)
  /\ pendingRefreshes' = pendingRefreshes + 1
  /\ UNCHANGED <<cancelledOrders, refreshOrdersFetches>>

\* useImperativeHandle(ref, () => ({ refreshOrders: fetchOpenOrders }), []):
\* with an empty dependency list the handle is built once, when the
\* component mounts, and keeps the fetchOpenOrders of that render, which
\* closes over that render's publicKey.  The page mounts with no wallet
\* connected (autoConnect is off), so that publicKey is null.
MountedPublicKey == None

\* the 3 s timer of handleOrderCreated fires: refreshOrders() runs the
\* fetchOpenOrders the handle holds, which returns at once when its
\* publicKey is null
RefreshOrdersTimer ==
  /\ PageTurn
  /\ pendingRefreshes > 0
  /\ pendingRefreshes' = pendingRefreshes - 1
  /\ UNCHANGED <<recentOrders, cancelledOrders, created, cancel, poll, form>>
  /\ IF MountedPublicKey = None
     THEN UNCHANGED <<component, refreshOrdersFetches>>
     ELSE /\ isLoading' = TRUE
          /\ errorMessage' = None
          /\ refreshPc' = "fetching"
          /\ refreshOrdersFetches' = refreshOrdersFetches + 1
          /\ UNCHANGED <<wallet, orders, isCancellingInProgress, cancellingOrderIds>>

\* order ids and id lists the Home page's callbacks can be called with
OrderIds == {"O1", "O2"}
CancelledArgs == {<<"O1">>, <<"O2", "O1">>}

\* a call of handleOrderCreated
OrderCreatedCall ==
  /\ PageTurn
  /\ Len(created) < MaxCreated
  /\ \E orderId \in OrderIds : HandleOrderCreated(orderId)
  /\ UNCHANGED <<component, cancel, poll, form>>

\* a call of handleOrderCancelled
OrderCancelledCall ==
  /\ PageTurn
  /\ \E orderIds \in CancelledArgs :
       cancelledOrders' = CancelledAfter(cancelledOrders, orderIds)
  /\ UNCHANGED <<component, cancel, poll, form, recentOrders, created, pendingRefreshes,
                 refreshOrdersFetches>>

(***************************************************************************)
(* LimitOrderForm: handleCreateOrder                                       *)
(***************************************************************************)
\* what the user can have typed into the amount and the price inputs
AmountInputs == {"", "0.05"}
PriceInputs == {"", "159.55"}

\* POST createOrder at the aggregator as the form sees it: the transaction
\* it gives is not signed yet
FormCreateOrderResults ==
  {[kind |-> "ok", order |-> "O1", tx |-> t] :
     t \in {None, Some("blobNoSig"), Some("blobGarbage")}} \cup
  {[kind |-> "http", status |-> "400", text |-> "bad request"]} \cup
  {[kind |-> "throw", message |-> m] : m \in Messages}

\* POST /api/submit-jito-bundle as the form sees it
SubmitBundleResults ==
  {[kind |-> "ok"], [kind |-> "http", status |-> "500", text |-> "rejected"]} \cup
  {[kind |-> "throw", message |-> m] : m \in Messages}

ConnectWalletFirst == "Please connect your wallet first"

\* the button: disabled={!publicKey || isCreatingOrder || !makingAmount || !price}
CreateButtonEnabled ==
  /\ wallet # None
  /\ ~isCreatingOrder
  /\ amountInput # ""
  /\ priceInput # ""

\* the user types into the amount or the price input, both disabled while
\* an order is being created
FormEdit ==
  /\ PageTurn
  /\ ~isCreatingOrder
  /\ \E m \in AmountInputs, p \in PriceInputs :
       /\ <<m, p>> # <<amountInput, priceInput>>
       /\ amountInput' = m
       /\ priceInput' = p
  /\ UNCHANGED <<component, cancel, poll, home, isCreatingOrder, lastOrderId,
                 formErrorMessage, createPc, createFlow, createCalls>>

\* mutant: the finally block is missing
CreateFailedStillCreating(m) ==
  /\ formErrorMessage' = Some(IF m = "" THEN "Failed to create order" ELSE m)
  /\ createPc' = "idle"
  /\ UNCHANGED <<amountInput, priceInput, lastOrderId, isCreatingOrder, home>>

\* the catch and the finally block of handleCreateOrder
CreateFailed(m) ==
  /\ formErrorMessage' = Some(IF m = "" THEN "Failed to create order" ELSE m)
  /\ isCreatingOrder' = FALSE
  /\ createPc' = "idle"
  /\ UNCHANGED <<amountInput, priceInput, lastOrderId, home>>

\* signTransaction(versionedTx) of the wallet
WalletSigned(tx) ==
  [tx EXCEPT !.signatures = <<[signer |-> "wallet", over |-> tx.blob]>>]

\* the button is clicked: handleCreateOrder up to the fetch of the
\* aggregator's createOrder (the button is disabled while amount or price is
\* empty, so the handler's second check never fails)
HandleCreateOrder ==
  /\ PageTurn
  /\ CreateButtonEnabled
  /\ createPc = "idle"
  /\ Len(created) < MaxCreated
  /\ UNCHANGED <<component, cancel, poll, home, amountInput, priceInput, lastOrderId>>
  /\ createFlow' = NoCreateFlow
  /\ IF ~Val(wallet).signTransaction
     THEN /\ formErrorMessage' = Some(ConnectWalletFirst)
          /\ createCalls' = <<>>
          /\ UNCHANGED <<isCreatingOrder, createPc>>
     ELSE /\ isCreatingOrder' = TRUE
          /\ formErrorMessage' = None
          /\ createCalls' = <<[to |-> "createOrder"]>>
          /\ createPc' = "await_aggregator"

\* the aggregator answers: deserialize its transaction and ask the wallet to
\* sign it
CreateAggregatorReturn ==
  /\ PageTurn
  /\ createPc = "await_aggregator"
  /\ UNCHANGED <<component, cancel, poll>>
  /\ \E r \in FormCreateOrderResults :
       IF r.kind = "throw"
       THEN CreateFailed(r.message) /\ UNCHANGED <<createFlow, createCalls>>
       ELSE IF r.kind = "http"
       THEN /\ CreateFailed(JupiterApiError(r.status, r.text))
            /\ UNCHANGED <<createFlow, createCalls>>
       ELSE IF ~IsSome(r.tx)
       THEN /\ CreateFailed(TypeErrorBuffer)
            /\ createFlow' = [createFlow EXCEPT !.order = Some(r.order)]
            /\ UNCHANGED createCalls
       ELSE IF ~Deserializes(Val(r.tx))
       THEN /\ CreateFailed(DeserializeError)
            /\ createFlow' = [createFlow EXCEPT !.order = Some(r.order)]
            /\ UNCHANGED createCalls
       ELSE /\ createFlow' = [createFlow EXCEPT !.order = Some(r.order),
                                                !.tx = Some(Deserialize(Val(r.tx)))]
            /\ createCalls' = Append(createCalls, [to |-> "signTransaction",
                                                   tx |-> Deserialize(Val(r.tx))])
            /\ createPc' = "await_sign"
            /\ UNCHANGED <<amountInput, priceInput, isCreatingOrder, lastOrderId,
                           formErrorMessage, home>>

\* the wallet answers: post the signed transaction to /api/submit-jito-bundle
CreateSignReturn ==
  /\ PageTurn
  /\ createPc = "await_sign"
  /\ UNCHANGED <<component, cancel, poll, createFlow>>
  /\ \E r \in SignResults :
       IF r.kind = "throw"
       THEN CreateFailed(r.message) /\ UNCHANGED createCalls
       ELSE /\ createCalls' =
                 Append(createCalls,
                        [to |-> "/api/submit-jito-bundle",
                         signedTransaction |-> WalletSigned(Val(createFlow.tx)),
                         orderId |-> Val(createFlow.order)])
            /\ createPc' = "await_submit"
            /\ UNCHANGED <<amountInput, priceInput, isCreatingOrder, lastOrderId,
                           formErrorMessage, home>>

\* the bundle endpoint answers: on ok tell the page, show the order id and
\* reset the form
CreateSubmitReturn ==
  /\ PageTurn
  /\ createPc = "await_submit"
  /\ UNCHANGED <<component, cancel, poll, createCalls>>
  /\ \E r \in SubmitBundleResults :
       IF r.kind = "throw"
       THEN CreateFailed(r.message) /\ UNCHANGED createFlow
       ELSE IF r.kind = "http"
       THEN /\ CreateFailed("Jito bundling error: " \o r.status \o " " \o r.text)
            /\ createFlow' = [createFlow EXCEPT
                                !.jitoResponse = Some(HttpResponse(FALSE, r.status, r.text))]
       ELSE /\ createFlow' = [createFlow EXCEPT
                                !.jitoResponse = Some(HttpResponse(TRUE, "200", ""))]
            /\ lastOrderId' = createFlow.order
            /\ HandleOrderCreated(Val(createFlow.order))
            /\ amountInput' = ""
            /\ priceInput' = ""
            /\ isCreatingOrder' = FALSE
            /\ createPc' = "idle"
            /\ UNCHANGED formErrorMessage

(***************************************************************************)
(* The handler has returned; its locals are gone                           *)
(***************************************************************************)
Finish ==
  /\ pc = "done"
  /\ pc' = "idle"
  /\ req' = NoRequest
  /\ calls' = <<>>
  /\ responses' = <<>>
  /\ cfg' = None
  /\ tipAccounts' = None
  /\ tipAccount' = None
  /\ userTxs' = <<>>
  /\ blockHash' = None
  /\ feeAmountUnits' = None
  /\ bundle' = None
  /\ sendResult' = None
  /\ jupiterResult' = None
  /\ versionedTx' = None
  /\ createOrderResponse' = None
  /\ confirmation' = None
  /\ bundleLog' = <<>>
  /\ UNCHANGED <<ui, config, parked>>

Next ==
  \/ Receive
  \/ SubmitJitoStart
  \/ SubmitJitoTipAccounts
  \/ SubmitJitoBlockhash
  \/ SubmitJitoSendBundle
  \/ SubmitCancelStart
  \/ SubmitCancelTipAccounts
  \/ SubmitCancelBlockhash
  \/ SubmitCancelSendBundle
  \/ BundleResultNotification
  \/ CreateOrderStart
  \/ CreateOrderAggregator
  \/ CreateOrderBlockhash
  \/ CreateOrderSendTransaction
  \/ CreateOrderConfirm
  \/ OpenOrdersStart
  \/ OpenOrdersAggregator
  \/ Finish
  \/ WalletConnect
  \/ WalletDisconnect
  \/ RefreshClick
  \/ RefreshReturn
  \/ HandleCancelOrder
  \/ HandleCancelAllOrders
  \/ CancelFetchReturn
  \/ CancelSignReturn
  \/ CancelSubmitReturn
  \/ PollCheckReturn
  \/ PollSleepReturn
  \/ PollRefreshReturn
  \/ PollFinish

Spec == Init /\ [][Next]_vars

(***************************************************************************)
(* Two requests in flight                                                  *)
(***************************************************************************)
\* Node runs the handlers on one event loop: an invocation runs from one
\* await to the next, and while it waits another invocation may run.  The
\* request variables hold the invocation that is running; parked holds the
\* other one.  Everything a handler touches is a local of its invocation or
\* the read-only configuration.

\* the position, request, calls, responses and locals of the running invocation
Running ==
  [pc |-> pc, req |-> req, calls |-> calls, responses |-> responses, cfg |-> cfg,
   tipAccounts |-> tipAccounts, tipAccount |-> tipAccount, userTxs |-> userTxs,
   blockHash |-> blockHash, feeAmountUnits |-> feeAmountUnits, bundle |-> bundle,
   sendResult |-> sendResult, jupiterResult |-> jupiterResult,
   versionedTx |-> versionedTx]

\* mutant: the tip account is kept in a variable of the module, so a resumed
\* invocation sees the account the other invocation picked last
ResumedSharingTipAccount(invocation, suspended) ==
  IF IsSome(invocation.tipAccount) /\ IsSome(suspended.tipAccount)
  THEN [invocation EXCEPT !.tipAccount = suspended.tipAccount]
  ELSE invocation

\* what an invocation finds when it is resumed while the other one is
\* suspended: its own locals, as it left them
Resumed(invocation, suspended) == invocation

\* bundle requests two callers may send at the same time
ConcurrentRequests ==
  {[route |-> "submit-jito-bundle", method |-> "POST",
    body |-> [isNull |-> FALSE, signedTransaction |-> Some(b), orderId |-> Some("O1"),
              makingAmount |-> Some(12345), inputMint |-> im],
    wallet |-> NoQuery] : b \in {"blobT1", "blobGarbage"}, im \in {None, Some(UsdcMint)}}
  \cup
  {[route |-> "submit-cancel-bundle", method |-> "POST",
    body |-> [isNull |-> FALSE, signedTransactions |-> Some(<<b>>),
              orderIds |-> Some(<<"O1">>)],
    wallet |-> NoQuery] : b \in {"blobT2", "blobGarbage"}}

ConcurrentInit ==
  /\ envFile = FileFull
  /\ procEnv = EmptyEnv
  /\ parked = IdleInvocation
  /\ BackendInit
  /\ UiInit

\* a bundle request arrives at the free invocation slot
ReceiveConcurrent ==
  /\ pc = "idle"
  /\ req' \in ConcurrentRequests
  /\ pc' = "received"
  /\ UNCHANGED <<ui, config, parked, bundleLog, calls, responses, locals>>

\* the running invocation waits at an await (or has returned): the event
\* loop resumes the other invocation
Yield ==
  /\ pc \in {"idle", "await_tip", "await_blockhash", "await_send", "done"}
  /\ parked # Running
  /\ parked' = Running
  /\ LET next == Resumed(parked, Running)
     IN /\ pc' = next.pc
        /\ req' = next.req
        /\ calls' = next.calls
        /\ responses' = next.responses
        /\ cfg' = next.cfg
        /\ tipAccounts' = next.tipAccounts
        /\ tipAccount' = next.tipAccount
        /\ userTxs' = next.userTxs
        /\ blockHash' = next.blockHash
        /\ feeAmountUnits' = next.feeAmountUnits
        /\ bundle' = next.bundle
        /\ sendResult' = next.sendResult
        /\ jupiterResult' = next.jupiterResult
        /\ versionedTx' = next.versionedTx
  /\ UNCHANGED <<ui, config, bundleLog, createOrderResponse, confirmation>>

ConcurrentNext ==
  \/ ReceiveConcurrent
  \/ SubmitJitoStart
  \/ SubmitJitoTipAccounts
  \/ SubmitJitoBlockhash
  \/ SubmitJitoSendBundle
  \/ SubmitCancelStart
  \/ SubmitCancelTipAccounts
  \/ SubmitCancelBlockhash
  \/ SubmitCancelSendBundle
  \/ Finish
  \/ Yield

ConcurrentSpec == ConcurrentInit /\ [][ConcurrentNext]_vars

(***************************************************************************)
(* The page on its own                                                     *)
(***************************************************************************)
\* the page as first mounted, the server configured and idle
PageInit ==
  /\ envFile = FileFull
  /\ procEnv = EmptyEnv
  /\ parked = IdleInvocation
  /\ BackendInit
  /\ UiInit

\* the Home page's callbacks called in any order with any arguments
HomeNext ==
  \/ OrderCreatedCall
  \/ OrderCancelledCall
  \/ RefreshOrdersTimer

HomeSpec == PageInit /\ [][HomeNext]_vars

\* the form, the wallet and the order list: orders are created through the
\* form, which calls handleOrderCreated
FormNext ==
  \/ WalletConnect
  \/ WalletDisconnect
  \/ RefreshReturn
  \/ FormEdit
  \/ HandleCreateOrder
  \/ CreateAggregatorReturn
  \/ CreateSignReturn
  \/ CreateSubmitReturn
  \/ RefreshOrdersTimer

FormSpec == PageInit /\ [][FormNext]_vars

\* every awaited call of the form settles, every fetch of the list settles
\* and every timer fires
FormFairSpec ==
  /\ FormSpec
  /\ WF_vars(RefreshReturn)
  /\ WF_vars(CreateAggregatorReturn)
  /\ WF_vars(CreateSignReturn)
  /\ WF_vars(CreateSubmitReturn)
  /\ WF_vars(RefreshOrdersTimer)

\* every awaited fetch and timer of the poll eventually settles
FairSpec ==
  /\ Spec
  /\ WF_vars(PollCheckReturn)
  /\ WF_vars(PollSleepReturn)
  /\ WF_vars(PollRefreshReturn)

(***************************************************************************)
(* Vocabulary of the properties                                            *)
(***************************************************************************)
BundleRoutes == {"submit-jito-bundle", "submit-cancel-bundle"}
SubmissionRoutes == BundleRoutes \cup {"create-order-jito"}

\* calls that leave the process: relay, ledger RPC, aggregator
OutsideCalls == {"searcherClient", "onBundleResult", "getTipAccounts",
                 "getLatestBlockhash", "sendBundle", "fetch createOrder",
                 "sendTransaction", "confirmTransaction", "fetch openOrders"}

Called(name) == \E i \in 1..Len(calls) : calls[i] = name
CallCount(name) == Cardinality({i \in 1..Len(calls) : calls[i] = name})
NoOutsideCall == \A i \in 1..Len(calls) : calls[i] \notin OutsideCalls

\* the request has been answered with exactly this failure
FailedWith(status, msg) ==
  responses = <<[status |-> status, body |-> [success |-> FALSE, error |-> msg]]>>

\* the request has been answered once, with a failure carrying a message
FailedOnce ==
  /\ Len(responses) = 1
  /\ responses[1].status # 200
  /\ ~responses[1].body.success
  /\ responses[1].body.error # ""

AnsweredSuccess == Len(responses) = 1 /\ responses[1].body.success

\* a server-built transaction that pays the tip
IsTipTx(tx) ==
  /\ tx.origin = "server"
  /\ tx.instruction = SystemTransfer(Val(cfg).serverKeypair, Val(tipAccount), tipAmount)
  /\ tx.signatures = <<[signer |-> Val(cfg).serverKeypair, over |-> tx.instruction]>>

\* a server-built transaction that pays the fee wallet or its token account
IsFeeTx(tx) ==
  /\ tx.origin = "server"
  /\ IF tx.instruction.program = "system"
     THEN tx.instruction.to = feeWallet
     ELSE tx.instruction.to =
            AssociatedTokenAddress(CurrentInputMint(req.body.inputMint), feeWallet)

(***************************************************************************)
(* C1: every bundle the creation handler hands to sendBundle has exactly   *)
(* three entries: the caller's transaction, then the fee transaction, then *)
(* the tip transaction.                                                    *)
(***************************************************************************)
CreationBundleIsUserFeeTip ==
  req.route = "submit-jito-bundle" =>
    /\ Called("sendBundle") <=> IsSome(bundle)
    /\ IsSome(bundle) =>
         LET txs == Val(bundle).txs
         IN /\ Len(txs) = 3
            /\ txs[1].origin = "caller"
            /\ txs[1] = Deserialize(Val(req.body.signedTransaction))
            /\ IsFeeTx(txs[2])
            /\ IsTipTx(txs[3])

CreationBundleSent ==
  /\ req.route = "submit-jito-bundle"
  /\ pc = "await_send"
  /\ IsSome(bundle)
  /\ req.body.inputMint = Some(UsdcMint)

(***************************************************************************)
(* C2: a cancellation bundle handed to sendBundle for a request with k     *)
(* signed transactions has k+1 entries: the k caller transactions in       *)
(* request order, then one tip transaction, and no fee transaction.        *)
(***************************************************************************)
CancelBundleIsUserTxsThenTip ==
  req.route = "submit-cancel-bundle" =>
    /\ Called("sendBundle") <=> IsSome(bundle)
    /\ IsSome(bundle) =>
         LET txs == Val(bundle).txs
             blobs == Val(req.body.signedTransactions)
             k == Len(blobs)
         IN /\ Len(txs) = k + 1
            /\ \A i \in 1..k : /\ txs[i].origin = "caller"
                               /\ txs[i] = Deserialize(blobs[i])
            /\ IsTipTx(txs[k + 1])
            /\ feeAmountUnits = None

CancelBundleSentTwo ==
  /\ req.route = "submit-cancel-bundle"
  /\ pc = "await_send"
  /\ IsSome(bundle)
  /\ req.body.signedTransactions = Some(<<"blobT2", "blobT1">>)

(***************************************************************************)
(* C3: for every non-negative makingAmount supplied in a creation request, *)
(* 0 included, the fee is floor(makingAmount * 0.01).                      *)
(***************************************************************************)
FeeIsOnePercentOfSuppliedAmount ==
  (/\ req.route = "submit-jito-bundle"
   /\ IsSome(feeAmountUnits)
   /\ IsSome(req.body.makingAmount)) =>
    Val(feeAmountUnits) = Val(req.body.makingAmount) \div 100

(***************************************************************************)
(* C4: in both bundle handlers, when getTipAccounts succeeds with an empty *)
(* list the request ends with one failure response carrying a message, and *)
(* sendBundle is never called.                                             *)
(***************************************************************************)
EmptyTipAccountsFails ==
  (req.route \in BundleRoutes /\ tipAccounts = Some(<<>>)) =>
    /\ pc = "done"
    /\ FailedOnce
    /\ ~Called("sendBundle")
    /\ bundle = None

EmptyTipAccountsSeen ==
  /\ req.route = "submit-cancel-bundle"
  /\ tipAccounts = Some(<<>>)
  /\ pc = "done"

(***************************************************************************)
(* C5                                                                      *)
(***************************************************************************)
\* the setting is named nowhere in the .env file nor in process.env
Absent(name) ==
  /\ \/ ~envFile.readable
     \/ \A i \in 1..Len(envFile.lines) :
          \A j \in 1..Len(envFile.lines[i]) : envFile.lines[i][j] # name
  /\ <<name>> \notin DOMAIN procEnv

RequiredSettings(route) ==
  IF route = "create-order-jito" THEN {"AUTH_KEYPAIR_PATH", "RPC_URL"}
  ELSE {"BLOCK_ENGINE_URL", "AUTH_KEYPAIR_PATH", "RPC_URL"}

SettingAbsent == \E name \in RequiredSettings(req.route) : Absent(name)

ConfigMissingMessage(route) ==
  IF route = "create-order-jito" THEN ConfigMissingCreate ELSE ConfigMissingBundle

\* the body is an object carrying what the handler reads before it loads the
\* configuration
BodyReadable ==
  /\ ~req.body.isNull
  /\ req.route = "submit-cancel-bundle" =>
       IsSome(req.body.orderIds) /\ IsSome(req.body.signedTransactions)

\* C5 as stated: a POST to a submission endpoint with a required setting
\* absent is answered with the configuration error, no outside call made.
ConfigErrorWheneverSettingAbsent ==
  (/\ req.route \in SubmissionRoutes
   /\ req.method = "POST"
   /\ SettingAbsent
   /\ pc = "done") =>
    /\ FailedWith(500, ConfigMissingMessage(req.route))
    /\ NoOutsideCall

\* C5 as amended: with a required setting absent, every request to a
\* submission endpoint ends with one failure response and no outside call;
\* the failure is the configuration error when the request is a POST whose
\* body is an object carrying the fields read before the configuration (on
\* the cancellation path: orderIds and signedTransactions).
ConfigErrorBeforeAnyCall ==
  (/\ req.route \in SubmissionRoutes
   /\ SettingAbsent
   /\ pc # "received") =>
    /\ pc = "done"
    /\ FailedOnce
    /\ NoOutsideCall
    /\ (req.method = "POST" /\ BodyReadable) =>
         FailedWith(500, ConfigMissingMessage(req.route))

ConfigErrorSeen ==
  /\ req.route = "submit-jito-bundle"
  /\ Absent("RPC_URL") /\ ~Absent("AUTH_KEYPAIR_PATH") /\ ~Absent("BLOCK_ENGINE_URL")
  /\ FailedWith(500, ConfigMissingBundle)
  /\ calls = <<"readFileSync">>

(***************************************************************************)
(* C6: pollForOrderCancellation always terminates: it makes at most 30     *)
(* listing checks and one refresh, and when it returns                     *)
(* isCancellingInProgress is false and cancellingOrderIds is empty.        *)
(***************************************************************************)
PollTerminates ==
  /\ [](pollChecks <= maxAttempts /\ pollRefreshes <= 1)
  /\ [][(pollPc # "returned" /\ pollPc' = "returned") =>
          (/\ pollRefreshes' = 1
           /\ ~isCancellingInProgress'
           /\ cancellingOrderIds' = <<>>)]_vars
  /\ (pollPc \in {"check", "sleep", "refresh_cancelled", "refresh_final"})
       ~> (pollPc = "returned")

PollGaveUp ==
  /\ pollPc = "returned"
  /\ pollChecks = maxAttempts
  /\ attempts = maxAttempts
  /\ onOrderCancelledCalls = <<>>

(***************************************************************************)
(* C7: order "O1", makingAmount 50000000, native input mint, every         *)
(* external call succeeding: the fee transaction is a native transfer of   *)
(* 500000 from the service key to the fee address, the tip transaction a   *)
(* native transfer of 1000 from the service key to an account of the list  *)
(* getTipAccounts returned, and the request is answered with the relay's   *)
(* bundle id and the user transaction's signature.                         *)
(***************************************************************************)
ScenarioRequest ==
  /\ req.route = "submit-jito-bundle"
  /\ req.method = "POST"
  /\ ~req.body.isNull
  /\ req.body.orderId = Some("O1")
  /\ req.body.makingAmount = Some(50000000)
  /\ req.body.inputMint = Some(NativeMint)

EndToEndCreation ==
  (ScenarioRequest /\ IsSome(sendResult) /\ Val(sendResult).kind = "ok") =>
    LET txs == Val(bundle).txs
        key == Val(cfg).serverKeypair
    IN /\ txs[2] = SignedTx(SystemTransfer(key, feeWallet, 500000), key, Val(blockHash))
       /\ txs[3].instruction.program = "system"
       /\ txs[3].instruction.from = key
       /\ txs[3].instruction.amount = 1000
       /\ \E i \in 1..Len(Val(tipAccounts)) :
            txs[3].instruction.to = Val(tipAccounts)[i]
       /\ txs[3].signatures[1].signer = key
       /\ responses =
            <<[status |-> 200,
               body |-> [success |-> TRUE, bundleId |-> Val(sendResult).value,
                         signature |->
                           Bs58Encode(Deserialize(Val(req.body.signedTransaction))
                                        .signatures[1])]]>>

EndToEndAnswered ==
  /\ ScenarioRequest
  /\ AnsweredSuccess
  /\ Val(tipAccounts) = <<"tipA", "tipB">>
  /\ tipAccount = Some("tipB")

(***************************************************************************)
(* C8                                                                      *)
(***************************************************************************)
RelayRejected ==
  /\ req.route \in BundleRoutes
  /\ IsSome(sendResult)
  /\ Val(sendResult).kind = "err"

\* C8 as stated: when the relay rejects the bundle with message m, the error
\* field of the failure response is m, nothing added or removed.
RelayMessageVerbatim ==
  RelayRejected => FailedWith(500, Val(sendResult).message)

\* C8 as amended: when the relay rejects the bundle with message m, the error
\* field is "Bundle submission failed: " (creation) or "Cancel bundle
\* submission failed: " (cancellation) followed by m unchanged.
RelayMessagePrefixed ==
  RelayRejected =>
    FailedWith(500,
               (IF req.route = "submit-jito-bundle"
                THEN "Bundle submission failed: "
                ELSE "Cancel bundle submission failed: ") \o Val(sendResult).message)

RelayRejectionSeen ==
  /\ RelayRejected
  /\ req.route = "submit-jito-bundle"
  /\ Val(sendResult).message = "bundle dropped"
  /\ pc = "done"

(***************************************************************************)
(* C9: a bundle handler answers success=true exactly when sendBundle was   *)
(* called once and returned ok; the answer then carries the relay's bundle *)
(* id and the first signature of the caller's transaction (creation) or of *)
(* each caller transaction in request order (cancellation).                *)
(***************************************************************************)
SuccessIffBundleAccepted ==
  req.route \in BundleRoutes =>
    /\ (\E i \in 1..Len(responses) : responses[i].body.success) <=>
         (/\ CallCount("sendBundle") = 1
          /\ IsSome(sendResult)
          /\ Val(sendResult).kind = "ok")
    /\ AnsweredSuccess =>
         /\ responses[1].status = 200
         /\ responses[1].body.bundleId = Val(sendResult).value
         /\ IF req.route = "submit-jito-bundle"
            THEN responses[1].body.signature =
                   Bs58Encode(Deserialize(Val(req.body.signedTransaction)).signatures[1])
            ELSE LET blobs == Val(req.body.signedTransactions)
                 IN responses[1].body.signatures =
                      [i \in 1..Len(blobs) |->
                         Bs58Encode(Deserialize(blobs[i]).signatures[1])]

CancelSuccessSeen ==
  /\ req.route = "submit-cancel-bundle"
  /\ AnsweredSuccess
  /\ req.body.signedTransactions = Some(<<"blobT1", "blobT2">>)

(***************************************************************************)
(* C10: a request whose method is not POST on a submission route, or not   *)
(* GET on the open-orders route, is answered 405 / success=false / "Method *)
(* not allowed"; no configuration is read and no outside call is made.     *)
(***************************************************************************)
WrongMethod ==
  \/ req.route \in SubmissionRoutes /\ req.method # "POST"
  \/ req.route = "open-orders" /\ req.method # "GET"

WrongMethodRejected ==
  (WrongMethod /\ pc # "received") =>
    /\ pc = "done"
    /\ FailedWith(405, "Method not allowed")
    /\ calls = <<>>
    /\ cfg = None

WrongMethodSeen ==
  /\ req.route = "open-orders"
  /\ req.method = "POST"
  /\ req.wallet.kind = "string"
  /\ pc = "done"

(***************************************************************************)
(* C11                                                                     *)
(***************************************************************************)
\* the result fields a success response of the route carries
ResultFields(route) ==
  IF route = "submit-jito-bundle" THEN {"bundleId", "signature"}
  ELSE IF route = "submit-cancel-bundle" THEN {"bundleId", "signatures"}
  ELSE IF route = "create-order-jito" THEN {"orderId"}
  ELSE {"orders"}

FailureShape(r) ==
  /\ r.status # 200
  /\ DOMAIN r.body = {"success", "error"}

\* C11 as stated: every response of the four endpoints is success=true with
\* the result fields of its endpoint and no error field, under status 200,
\* or success=false with an error message and no result field, under a
\* status other than 200.
ResponseShapes ==
  \A i \in 1..Len(responses) :
    LET r == responses[i]
    IN IF r.body.success
       THEN /\ r.status = 200
            /\ DOMAIN r.body = {"success"} \cup ResultFields(req.route)
       ELSE FailureShape(r)

\* C11 as amended: as stated, except that the success response of
\* create-order-jito carries the order id only when the aggregator's answer
\* had one; without it the response is success=true alone.
ResponseShapesAsReceived ==
  \A i \in 1..Len(responses) :
    LET r == responses[i]
    IN IF r.body.success
       THEN /\ r.status = 200
            /\ DOMAIN r.body =
                 {"success"} \cup
                 (IF req.route = "create-order-jito" /\ Val(jupiterResult).order = None
                  THEN {} ELSE ResultFields(req.route))
       ELSE FailureShape(r)

OrderCreatedWithoutId ==
  /\ req.route = "create-order-jito"
  /\ pc = "done"
  /\ responses = <<[status |-> 200, body |-> [success |-> TRUE]]>>
  /\ Called("confirmTransaction")

(***************************************************************************)
(* C12: the bundle handlers never retry.  Within one request each of       *)
(* getTipAccounts, getLatestBlockhash and sendBundle is called at most     *)
(* once, and when a step fails (tip-account lookup, deserialization of a   *)
(* caller transaction, blockhash fetch, bundle submission) no later step   *)
(* runs and the request ends with one failure response.                    *)
(***************************************************************************)
\* getTipAccounts has settled without giving the handler a tip account
TipLookupFailed ==
  /\ Called("getTipAccounts")
  /\ pc # "await_tip"
  /\ tipAccount = None

\* the tip account was picked and a caller transaction did not deserialize
\* (or carried no signature to encode)
DeserializationFailed ==
  /\ Called("getTipAccounts")
  /\ pc # "await_tip"
  /\ IsSome(tipAccount)
  /\ IF req.route = "submit-jito-bundle"
     THEN \/ ~IsSome(req.body.signedTransaction)
          \/ ~Deserializes(Val(req.body.signedTransaction))
          \/ Deserialize(Val(req.body.signedTransaction)).signatures = <<>>
     ELSE \E i \in 1..Len(Val(req.body.signedTransactions)) :
            LET blob == Val(req.body.signedTransactions)[i]
            IN ~Deserializes(blob) \/ Deserialize(blob).signatures = <<>>

\* getLatestBlockhash has settled without a blockhash
BlockhashFailed ==
  /\ Called("getLatestBlockhash")
  /\ pc # "await_blockhash"
  /\ blockHash = None

\* sendBundle has settled without accepting the bundle
SubmissionFailed == IsSome(sendResult) /\ Val(sendResult).kind # "ok"

EndedInFailureBefore(laterCalls) ==
  /\ pc = "done"
  /\ FailedOnce
  /\ \A name \in laterCalls : ~Called(name)

NoRetry ==
  req.route \in BundleRoutes =>
    /\ \A name \in {"getTipAccounts", "getLatestBlockhash", "sendBundle"} :
         CallCount(name) <= 1
    /\ TipLookupFailed => EndedInFailureBefore({"getLatestBlockhash", "sendBundle"})
    /\ DeserializationFailed =>
         EndedInFailureBefore({"getLatestBlockhash", "sendBundle"})
    /\ BlockhashFailed => EndedInFailureBefore({"sendBundle"})
    /\ SubmissionFailed => EndedInFailureBefore({})

BlockhashFailureSeen ==
  /\ req.route = "submit-cancel-bundle"
  /\ BlockhashFailed
  /\ Len(userTxs) = 2
  /\ calls = <<"readFileSync", "searcherClient", "onBundleResult", "getTipAccounts",
               "getLatestBlockhash">>

(***************************************************************************)
(* C13: within one bundle request the network calls are made in the order  *)
(* getTipAccounts, getLatestBlockhash, sendBundle, each one only after the *)
(* one before it has returned successfully; sendBundle is never called     *)
(* before the tip accounts and the blockhash have been received.           *)
(***************************************************************************)
\* every call named first was made before every call named second
CalledBefore(first, second) ==
  \A i, j \in 1..Len(calls) :
    (calls[i] = first /\ calls[j] = second) => i < j

StrictCallOrder ==
  req.route \in BundleRoutes =>
    /\ CalledBefore("getTipAccounts", "getLatestBlockhash")
    /\ CalledBefore("getLatestBlockhash", "sendBundle")
    /\ Called("getLatestBlockhash") =>
         /\ Called("getTipAccounts")
         /\ IsSome(tipAccounts)
         /\ IsSome(tipAccount)
         /\ pc # "await_tip"
    /\ Called("sendBundle") =>
         /\ Called("getLatestBlockhash")
         /\ IsSome(tipAccount)
         /\ IsSome(blockHash)
         /\ pc \notin {"await_tip", "await_blockhash"}

AllThreeCallsMade ==
  /\ req.route = "submit-jito-bundle"
  /\ pc = "await_send"
  /\ calls = <<"readFileSync", "searcherClient", "onBundleResult", "getTipAccounts",
               "getLatestBlockhash", "sendBundle">>

(***************************************************************************)
(* C14: in one bundle request the recent blockhash is fetched exactly      *)
(* once, and every transaction the server adds to the bundle (the fee      *)
(* transaction on each of its three branches, the tip transaction) carries *)
(* that blockhash and the service key's signature when the bundle is       *)
(* assembled.                                                              *)
(***************************************************************************)
ServerTxs(txs) == {i \in 1..Len(txs) : txs[i].origin = "server"}

OneBlockhashForAuxiliaryTxs ==
  (req.route \in BundleRoutes /\ IsSome(bundle)) =>
    LET txs == Val(bundle).txs
        key == Val(cfg).serverKeypair
    IN /\ CallCount("getLatestBlockhash") = 1
       /\ IsSome(blockHash)
       /\ Cardinality(ServerTxs(txs)) =
            (IF req.route = "submit-jito-bundle" THEN 2 ELSE 1)
       /\ \A i \in ServerTxs(txs) :
            /\ txs[i].recentBlockhash = Val(blockHash)
            /\ txs[i].payerKey = key
            /\ txs[i].signatures = <<[signer |-> key, over |-> txs[i].instruction]>>

FallbackFeeBundleAssembled ==
  /\ req.route = "submit-jito-bundle"
  /\ IsSome(bundle)
  /\ blockHash = Some("bh2")
  /\ req.body.inputMint = Some("not-a-mint")
  /\ Val(bundle).txs[2].instruction.program = "system"

(***************************************************************************)
(* C15: no bundle handed to sendBundle has more transactions than the      *)
(* configured BUNDLE_TRANSACTION_LIMIT (default 5); a cancellation request *)
(* with k caller transactions where k+1 exceeds the limit does not lead to *)
(* a sendBundle call with k+1 entries.                                     *)
(***************************************************************************)
BundleWithinLimit ==
  (req.route \in BundleRoutes /\ Called("sendBundle")) =>
    /\ Val(bundle).transactionLimit = Val(cfg).bundleTransactionLimit
    /\ Len(Val(bundle).txs) <= Val(bundle).transactionLimit

(***************************************************************************)
(* C16                                                                     *)
(***************************************************************************)
\* the poll has returned after using up its attempts
GaveUp ==
  /\ pollPc = "returned"
  /\ attempts = maxAttempts

\* the messages fetchOpenOrders leaves when its fetch fails
ListingErrors ==
  {FetchOpenOrdersResult(r, <<>>)[2] : r \in {x \in ListingResults : x.kind # "ok"}}

\* C16 as stated: when the poll uses up its attempts it gives up silently:
\* one refresh of the list, isCancellingInProgress and cancellingOrderIds
\* cleared, onOrderCancelled not invoked, no error message set.
GiveUpLeavesNoMessage ==
  GaveUp =>
    /\ pollRefreshes = 1
    /\ ~isCancellingInProgress
    /\ cancellingOrderIds = <<>>
    /\ onOrderCancelledCalls = <<>>
    /\ errorMessage = None

\* C16 as amended: as stated, except that the error message is the one of a
\* failed listing fetch when the closing refresh (or a refresh running beside
\* the poll) fails; no message about the cancellation is ever set.
GiveUpSetsNoCancellationMessage ==
  GaveUp =>
    /\ pollChecks = maxAttempts
    /\ pollRefreshes = 1
    /\ ~isCancellingInProgress
    /\ cancellingOrderIds = <<>>
    /\ onOrderCancelledCalls = <<>>
    /\ errorMessage \in {None} \cup ListingErrors

GaveUpAfterFailedRefresh ==
  /\ GaveUp
  /\ errorMessage = Some("Failed to fetch orders: 500 upstream")
  /\ orders # <<>>

(***************************************************************************)
(* C17: pollForOrderCancellation invokes onOrderCancelled(ids) at most     *)
(* once, and only after a listing fetch that succeeded and listed none of  *)
(* ids.  A failed or non-ok fetch is never taken for a cancellation, and a *)
(* listing from which only some of ids have gone does not report           *)
(* completion.                                                             *)
(***************************************************************************)
\* the latest listing was received and names none of the polled identifiers
SeenAllGone ==
  /\ IsSome(lastListing)
  /\ Val(lastListing).kind = "ok"
  /\ \A i \in 1..Len(orderIdsToCheck) :
       \A j \in 1..Len(Val(lastListing).orders) :
         Val(lastListing).orders[j].publicKey # orderIdsToCheck[i]

CompletionOnlyWhenAllGone ==
  /\ Len(onOrderCancelledCalls) <= 1
  /\ onOrderCancelledCalls # <<>> =>
       /\ onOrderCancelledCalls = <<orderIdsToCheck>>
       /\ pollPc = "returned"
       /\ SeenAllGone
  /\ pollPc = "refresh_cancelled" => SeenAllGone
  /\ pollPc = "sleep" => ~SeenAllGone
  /\ (pollPc = "returned" /\ ~SeenAllGone) => onOrderCancelledCalls = <<>>

PartlyGoneNotReported ==
  /\ pollPc = "sleep"
  /\ orderIdsToCheck = <<"O1", "O2">>
  /\ lastListing = Some([kind |-> "ok", orders |-> <<Order("O1")>>])
  /\ onOrderCancelledCalls = <<>>

(***************************************************************************)
(* C18: requests are isolated under every interleaving.  With two bundle   *)
(* requests in flight, the bundle of each consists of the caller           *)
(* transactions of that request and of the fee and tip transactions built  *)
(* in that request from its own tip account and blockhash; a step of one   *)
(* request, failing or not, changes neither the responses nor the bundle   *)
(* of the other.                                                           *)
(***************************************************************************)
\* the bundle and the responses of invocation r come from r alone
OwnBundle(r) ==
  /\ IsSome(r.tipAccount) =>
       \E i \in 1..Len(Val(r.tipAccounts)) : Val(r.tipAccounts)[i] = Val(r.tipAccount)
  /\ IsSome(r.bundle) =>
       LET txs == Val(r.bundle).txs
           key == Val(r.cfg).serverKeypair
           tip == TipTx(key, Val(r.tipAccount), Val(r.blockHash))
       IN IF r.req.route = "submit-jito-bundle"
          THEN /\ Len(txs) = 3
               /\ txs[1] = Deserialize(Val(r.req.body.signedTransaction))
               /\ \E splFails \in BOOLEAN :
                    txs[2] = FeeTx(r.req.body.inputMint, r.req.body.makingAmount, key,
                                   Val(r.blockHash), splFails)
               /\ txs[3] = tip
          ELSE LET blobs == Val(r.req.body.signedTransactions)
               IN /\ Len(txs) = Len(blobs) + 1
                  /\ \A i \in 1..Len(blobs) : txs[i] = Deserialize(blobs[i])
                  /\ txs[Len(txs)] = tip
  /\ \A i \in 1..Len(r.responses) :
       r.responses[i].body.success =>
         /\ IsSome(r.sendResult)
         /\ Val(r.sendResult).kind = "ok"
         /\ r.responses[i].body.bundleId = Val(r.sendResult).value

RequestsIsolated ==
  /\ [](OwnBundle(Running) /\ OwnBundle(parked))
  /\ [][(parked' # parked) => (parked' = Running /\ Running' = parked)]_vars

\* one request has failed while the other, suspended with its bundle
\* submitted, is still waiting for the relay
OneFailedOtherInFlight ==
  /\ pc = "done"
  /\ Len(responses) = 1 /\ ~responses[1].body.success
  /\ req.route = "submit-jito-bundle"
  /\ parked.pc = "await_send"
  /\ parked.req.route = "submit-cancel-bundle"
  /\ parked.tipAccount # tipAccount
  /\ IsSome(tipAccount)
  /\ parked.blockHash # blockHash

(***************************************************************************)
(* C19: the fee transaction of the creation path follows the input asset.  *)
(* For the native asset it is a native transfer of the fee from the        *)
(* service key to the fee address; otherwise it is a token transfer of the *)
(* fee between the associated accounts of the service key and of the fee   *)
(* address, and when that cannot be built, a native transfer of            *)
(* floor(fee / 1000) to the fee address.  In each case exactly one fee     *)
(* transaction is built and the request goes on to submission.             *)
(***************************************************************************)
\* a transaction of one native transfer from the service key, signed by it
NativeTransferTx(key, to, amount, recentBlockhash) ==
  LET ix == [program |-> "system", from |-> key, to |-> to, amount |-> amount]
  IN [origin |-> "server", instruction |-> ix, payerKey |-> key,
      recentBlockhash |-> recentBlockhash,
      signatures |-> <<[signer |-> key, over |-> ix]>>]

\* a transaction of one token transfer between the associated accounts
AssociatedTransferTx(key, mint, to, amount, recentBlockhash) ==
  LET ix == [program |-> "token", from |-> <<"ata", mint, key>>,
             to |-> <<"ata", mint, to>>, amount |-> amount, owner |-> key]
  IN [origin |-> "server", instruction |-> ix, payerKey |-> key,
      recentBlockhash |-> recentBlockhash,
      signatures |-> <<[signer |-> key, over |-> ix]>>]

FeeTxFollowsInputAsset ==
  req.route = "submit-jito-bundle" =>
    /\ IsSome(blockHash) => (IsSome(bundle) /\ Called("sendBundle"))
    /\ IsSome(bundle) =>
         LET txs == Val(bundle).txs
             key == Val(cfg).serverKeypair
             bh == Val(blockHash)
             fee == Val(feeAmountUnits)
             mint == IF req.body.inputMint = None THEN NativeMint
                     ELSE Val(req.body.inputMint)
             fallback == NativeTransferTx(key, feeWallet, fee \div 1000, bh)
         IN /\ Cardinality({i \in 1..Len(txs) : IsFeeTx(txs[i])}) = 1
            /\ IF mint = NativeMint
               THEN txs[2] = NativeTransferTx(key, feeWallet, fee, bh)
               ELSE IF mint = "not-a-mint"
               THEN txs[2] = fallback
               ELSE txs[2] \in {AssociatedTransferTx(key, mint, feeWallet, fee, bh),
                                fallback}

TokenFeeBundleSent ==
  /\ req.route = "submit-jito-bundle"
  /\ pc = "await_send"
  /\ req.body.inputMint = Some(UsdcMint)
  /\ req.body.makingAmount = Some(50000000)
  /\ Val(bundle).txs[2].instruction.program = "token"
  /\ Val(bundle).txs[2].instruction.amount = 500000

(***************************************************************************)
(* C20: the creation handler's defaults.  An omitted inputMint counts as   *)
(* the native asset and an omitted makingAmount as 50000000, so a request  *)
(* with neither field gets a native fee transfer of 500000 base units.     *)
(***************************************************************************)
DefaultsApplyWhenOmitted ==
  (req.route = "submit-jito-bundle" /\ IsSome(bundle)) =>
    LET feeTx == Val(bundle).txs[2]
    IN /\ req.body.inputMint = None =>
            /\ feeTx.instruction.program = "system"
            /\ feeTx.instruction.to = feeWallet
            /\ feeTx.instruction.amount = Val(feeAmountUnits)
       /\ req.body.makingAmount = None => feeAmountUnits = Some(500000)
       /\ (req.body.inputMint = None /\ req.body.makingAmount = None) =>
            feeTx = NativeTransferTx(Val(cfg).serverKeypair, feeWallet, 500000,
                                     Val(blockHash))

BothFieldsOmitted ==
  /\ req.route = "submit-jito-bundle"
  /\ pc = "await_send"
  /\ req.body.inputMint = None
  /\ req.body.makingAmount = None
  /\ Val(bundle).txs[2].instruction.amount = 500000

(***************************************************************************)
(* C21                                                                     *)
(***************************************************************************)
\* the signing key setting has a value, and the value is not a key array
KeyPresentButInvalid ==
  LET key == Setting(envFile, procEnv, "AUTH_KEYPAIR_PATH")
  IN Truthy(key) /\ Val(key) \notin {<<"[kp]">>, <<"[kp2]">>}

\* the other settings the route requires have values
OtherSettingsPresent ==
  /\ Truthy(Setting(envFile, procEnv, "RPC_URL"))
  /\ req.route \in BundleRoutes => Truthy(Setting(envFile, procEnv, "BLOCK_ENGINE_URL"))

\* C21 as stated: in every submission endpoint, when the signing key is
\* present but does not parse, a POST is answered with the failure naming
\* the invalid key format and no outside call is made.
InvalidKeyAlwaysNamed ==
  (/\ req.route \in SubmissionRoutes
   /\ req.method = "POST"
   /\ KeyPresentButInvalid
   /\ OtherSettingsPresent
   /\ pc = "done") =>
    /\ FailedWith(500, InvalidKeypair)
    /\ NoOutsideCall

\* C21 as amended: when the signing key is present but does not parse, every
\* request to a submission endpoint ends with one failure response and no
\* outside call; the failure names the invalid key format when the request
\* is a POST whose body carries the fields read before the configuration and
\* the other required settings are present.
InvalidKeyRejectedBeforeAnyCall ==
  (/\ req.route \in SubmissionRoutes
   /\ KeyPresentButInvalid
   /\ pc # "received") =>
    /\ pc = "done"
    /\ FailedOnce
    /\ NoOutsideCall
    /\ cfg = None
    /\ (req.method = "POST" /\ BodyReadable /\ OtherSettingsPresent) =>
         FailedWith(500, InvalidKeypair)

InvalidKeySeen ==
  /\ req.route = "create-order-jito"
  /\ envFile = FileBadKey
  /\ FailedWith(500, InvalidKeypair)
  /\ calls = <<"readFileSync">>

(***************************************************************************)
(* C22: in both bundle handlers, a request carrying a transaction blob     *)
(* that does not deserialize (for a cancellation, any one of its blobs)    *)
(* never gets a blockhash fetched, never reaches sendBundle and never has  *)
(* a bundle built from the blobs that are well formed; once the handler    *)
(* has come to the blobs the request is over, answered with one failure    *)
(* that carries the error's message.                                       *)
(***************************************************************************)
\* the blobs of the request, in the order the handler deserializes them
CallerBlobs ==
  IF req.route \notin BundleRoutes \/ req.body.isNull THEN <<>>
  ELSE IF req.route = "submit-jito-bundle"
  THEN (IF IsSome(req.body.signedTransaction)
        THEN <<Val(req.body.signedTransaction)>> ELSE <<>>)
  ELSE IF IsSome(req.body.signedTransactions)
  THEN Val(req.body.signedTransactions) ELSE <<>>

HasMalformedBlob ==
  \E i \in 1..Len(CallerBlobs) : ~Deserializes(CallerBlobs[i])

MalformedBlobNeverBundled ==
  HasMalformedBlob =>
    /\ ~Called("getLatestBlockhash")
    /\ ~Called("sendBundle")
    /\ bundle = None
    /\ blockHash = None
    /\ pc \in {"received", "await_tip", "done"}
    /\ pc = "done" => FailedOnce
    /\ IsSome(tipAccount) =>
         /\ pc = "done"
         /\ \/ FailedWith(500, DeserializeError)
            \/ FailedWith(500, EncodeError)
         /\ \A i \in 1..Len(userTxs) : userTxs[i] = Deserialize(CallerBlobs[i])
         /\ Len(userTxs) < Len(CallerBlobs)

MalformedSecondBlobSeen ==
  /\ req.route = "submit-cancel-bundle"
  /\ ~req.body.isNull
  /\ req.body.signedTransactions = Some(<<"blobT1", "blobGarbage">>)
  /\ userTxs = <<Deserialize("blobT1")>>
  /\ FailedWith(500, DeserializeError)
  /\ Called("getTipAccounts")

(***************************************************************************)
(* C23: the bundle-result subscription is fire-and-forget.  The step in    *)
(* which sendBundle settles is the step that answers the request, whatever *)
(* has or has not been notified by then; a notification (a result or an    *)
(* error), whether it comes before, while or after the handler waits for   *)
(* sendBundle, changes neither the responses nor the calls nor the         *)
(* handler's position or locals; and a request never has two responses.    *)
(***************************************************************************)
NotificationStep == Len(bundleLog') > Len(bundleLog)

FireAndForgetStep ==
  /\ NotificationStep =>
       /\ responses' = responses
       /\ calls' = calls
       /\ pc' = pc
       /\ bundle' = bundle
       /\ sendResult' = sendResult
  /\ (req.route \in BundleRoutes /\ pc = "await_send" /\ pc' # pc) =>
       /\ pc' = "done"
       /\ Len(responses') = 1
       /\ bundleLog' = bundleLog
  /\ Len(responses') <= 1
  /\ Cardinality({i \in 1..Len(calls') : calls'[i] = "sendBundle"}) <= 1

BundleResultFireAndForget == [][FireAndForgetStep]_vars

\* the request has been answered with success and its callbacks have logged
\* a result and then an error
NotifiedBeforeAndAfterAnswer ==
  /\ req.route = "submit-jito-bundle"
  /\ pc = "done"
  /\ AnsweredSuccess
  /\ bundleLog = <<"result", "error">>

(***************************************************************************)
(* C24: create-order-jito answers success, with the order id the           *)
(* aggregator gave, only when the aggregator responded with success, its   *)
(* transaction was signed with the service key and sent to the ledger, and *)
(* the confirmation reported no error; when the aggregator responds with a *)
(* non-success status the one response is a failure carrying that status   *)
(* and text, and nothing is sent to the ledger.                            *)
(***************************************************************************)
OrderCreatedOnlyAfterConfirmation ==
  req.route = "create-order-jito" =>
    /\ (responses # <<>> /\ responses[1].body.success) =>
         /\ responses = <<[status |-> 200,
                           body |-> JsonOrderCreated(Val(jupiterResult).order)]>>
         /\ IsSome(createOrderResponse) /\ Val(createOrderResponse).ok
         /\ IsSome(versionedTx)
         /\ Val(versionedTx).blob = Val(Val(jupiterResult).tx)
         /\ Val(versionedTx).signatures[1].signer = Val(cfg).serverKeypair
         /\ CalledBefore("fetch createOrder", "sendTransaction")
         /\ CalledBefore("sendTransaction", "confirmTransaction")
         /\ CallCount("sendTransaction") = 1
         /\ CallCount("confirmTransaction") = 1
         /\ confirmation = Some([err |-> None])
    /\ (IsSome(createOrderResponse) /\ ~Val(createOrderResponse).ok) =>
         /\ pc = "done"
         /\ FailedWith(500, "Jupiter API error: "
                              \o Val(createOrderResponse).status \o " "
                              \o Val(createOrderResponse).text)
         /\ ~Called("getLatestBlockhash")
         /\ ~Called("sendTransaction")
         /\ versionedTx = None

OrderCreatedAndConfirmed ==
  /\ req.route = "create-order-jito"
  /\ pc = "done"
  /\ responses = <<[status |-> 200, body |-> [success |-> TRUE, orderId |-> "O1"]]>>
  /\ confirmation = Some([err |-> None])

(***************************************************************************)
(* C25: after any sequence of handleOrderCreated calls recentOrders has at *)
(* most 5 entries, its first entry is the id created last, and its entries *)
(* are the ids created last, latest first.                                 *)
(***************************************************************************)
RecentOrdersAreLastFive ==
  LET n == Len(created)
      k == IF n < 5 THEN n ELSE 5
  IN /\ Len(recentOrders) <= 5
     /\ recentOrders = [i \in 1..k |-> created[n + 1 - i]]

SixthOrderDropsFirst ==
  /\ created = <<"O1", "O2", "O2", "O1", "O2", "O1">>
  /\ recentOrders = <<"O1", "O2", "O1", "O2", "O2">>

(***************************************************************************)
(* C26 as stated: after any sequence of handleOrderCancelled calls, each   *)
(* with any number of order ids, cancelledOrders has at most 10 entries.   *)
(***************************************************************************)
CancelledOrdersAtMostTen == Len(cancelledOrders) <= 10

(***************************************************************************)
(* C27 as stated: whenever handleOrderCreated has run and a wallet is      *)
(* connected, the refreshOrders call it scheduled eventually issues a      *)
(* fetch of the wallet's open orders.                                      *)
(***************************************************************************)
RefreshAfterCreationFetches ==
  (pendingRefreshes > 0 /\ wallet # None) ~> (refreshOrdersFetches > 0)

(***************************************************************************)
(* C28: handleCreateOrder calls the aggregator, then the wallet's          *)
(* signTransaction, then POST /api/submit-jito-bundle, each only after the *)
(* step before it succeeded; the signed transaction goes to the bundle     *)
(* endpoint and nowhere else; onOrderCreated is called and the form is     *)
(* reset only in the step in which the bundle endpoint answered ok; and    *)
(* whenever the handler is not running isCreatingOrder is false.           *)
(***************************************************************************)
FormCallOrder == <<"createOrder", "signTransaction", "/api/submit-jito-bundle">>

\* the calls made so far are a prefix of the three steps, each made after the
\* one before it gave what the next one needs
FormCallsOrdered ==
  /\ Len(createCalls) <= 3
  /\ \A i \in 1..Len(createCalls) :
       /\ createCalls[i].to = FormCallOrder[i]
       /\ "signedTransaction" \in DOMAIN createCalls[i] => i = 3
  /\ Len(createCalls) >= 2 =>
       /\ IsSome(createFlow.tx)
       /\ createCalls[2].tx = Val(createFlow.tx)
       /\ createCalls[2].tx.signatures # <<[signer |-> "wallet",
                                            over |-> createCalls[2].tx.blob]>>
  /\ Len(createCalls) = 3 =>
       createCalls[3].signedTransaction = WalletSigned(Val(createFlow.tx))
  /\ createPc = "await_aggregator" => Len(createCalls) = 1
  /\ createPc = "await_sign" => Len(createCalls) = 2
  /\ createPc = "await_submit" => Len(createCalls) = 3
  /\ isCreatingOrder <=> createPc # "idle"

CreateOrderStep ==
  /\ FormCallsOrdered'
  /\ created' # created =>
       /\ createPc = "await_submit"
       /\ createPc' = "idle"
       /\ createFlow'.jitoResponse = Some(HttpResponse(TRUE, "200", ""))
       /\ created' = Append(created, Val(createFlow.order))
       /\ lastOrderId' = createFlow.order
       /\ amountInput' = "" /\ priceInput' = ""
  /\ (createPc # "idle" /\ <<amountInput', priceInput'>> # <<amountInput, priceInput>>) =>
       created' # created
  /\ (IsSome(createFlow'.jitoResponse) /\ ~Val(createFlow'.jitoResponse).ok) =>
       created' = created

BundlingMandatoryAndOrdered == [][CreateOrderStep]_vars

OrderCreatedThroughForm ==
  /\ created = <<"O1">>
  /\ lastOrderId = Some("O1")
  /\ amountInput = "" /\ priceInput = ""
  /\ Len(createCalls) = 3
  /\ createPc = "idle"
  /\ ~isCreatingOrder

(***************************************************************************)
(* C29: at most one cancellation flow is active at a time.  From the start *)
(* of handleCancelOrder or handleCancelAllOrders until the error path or   *)
(* the end of the poll, isCancellingInProgress is true, the cancel buttons *)
(* and the Refresh button are disabled, the handler and the poll never run *)
(* side by side, and cancellingOrderIds is the list of the orders of the   *)
(* flow that is running; a flow starts, and a refresh is started by hand,  *)
(* only while no flow is running.                                          *)
(***************************************************************************)
HandlerActive == cancelPc # "idle"
PollActive == pollPc \notin {"none", "returned"}
FlowActive == HandlerActive \/ PollActive

\* the Refresh button: disabled={isLoading || isCancellingInProgress}
RefreshButtonEnabled == wallet # None /\ ~isLoading /\ ~isCancellingInProgress

SingleFlowState ==
  /\ FlowActive <=> isCancellingInProgress
  /\ ~(HandlerActive /\ PollActive)
  /\ FlowActive => ~CancelButtonsEnabled /\ ~RefreshButtonEnabled
  /\ HandlerActive => cancellingOrderIds = cancelFlow.ids /\ cancelFlow.ids # <<>>
  /\ PollActive => cancellingOrderIds = orderIdsToCheck /\ orderIdsToCheck # <<>>
  /\ ~FlowActive => cancellingOrderIds = <<>>

SingleFlowStep ==
  /\ SingleFlowState'
  /\ (cancelPc = "idle" /\ cancelPc' # "idle") => ~FlowActive /\ CancelButtonsEnabled
  /\ (pollPc \in {"none", "returned"} /\ PollActive') =>
       /\ cancelPc = "submit" /\ cancelPc' = "idle"
       /\ orderIdsToCheck' = cancelFlow.ids
  /\ (refreshPc = "idle" /\ refreshPc' = "fetching" /\ wallet' = wallet) => ~FlowActive

OneCancellationFlowAtATime == [][SingleFlowStep]_vars

PollingWithButtonsDisabled ==
  /\ pollPc = "sleep"
  /\ attempts = 2
  /\ isCancellingInProgress
  /\ cancellingOrderIds = <<"O1", "O2">>
  /\ orders # <<>>
  /\ ~isLoading
  /\ refreshPc = "idle"

(***************************************************************************)
(* C30: every request to one of the four endpoints gets exactly one        *)
(* response on every path.  No request ever has two responses; a handler   *)
(* that has returned has sent one, also for a body that is null or lacks   *)
(* the fields the handler reads; and once the response is sent nothing     *)
(* later changes it.                                                       *)
(***************************************************************************)
ExactlyOneResponseStep ==
  /\ Len(responses') <= 1
  /\ pc' = "done" <=> Len(responses') = 1
  /\ (pc # "done" /\ pc' = "done") => pc \notin {"idle", "done"}
  /\ (pc = "done" /\ pc' = "done") => responses' = responses
  /\ (pc = "done" /\ pc' # "done") => pc' = "idle" /\ req' = NoRequest

ExactlyOneResponse == [][ExactlyOneResponseStep]_vars

\* a cancellation request whose body has neither orderIds nor
\* signedTransactions has been answered, once
BodyWithoutFieldsAnswered ==
  /\ req.route = "submit-cancel-bundle"
  /\ req.method = "POST"
  /\ ~req.body.isNull
  /\ req.body.orderIds = None
  /\ req.body.signedTransactions = None
  /\ pc = "done"
  /\ FailedWith(500, TypeErrorLength)

====
